---- MODULE Spec2Model ----
(***************************************************************************)
(* pyperry: the Relation query builder (pyperry/relation.py), the scopes   *)
(* of a model class (pyperry/base.py) and the read adapter it fetches      *)
(* through.  Python objects that the code mutates in place (the lists held *)
(* in Relation.params) live in a heap and are referred to by identity, so  *)
(* that sharing between a Relation and its clones is something the model   *)
(* can get wrong.                                                          *)
(***************************************************************************)
EXTENDS Integers, Sequences, FiniteSets, TLC

(***************************************************************************)
(* Bounds of the model.                                                    *)
(***************************************************************************)
\* number of calls the caller makes on Relations in one behaviour
MaxOps == 3
\* the read adapter answers a fetch with 0..MaxRows rows
MaxRows == 1
\* a type tag read from a record has at most MaxTag pieces
MaxTag == 3

(***************************************************************************)
(* Python values.  Every value has the same four fields, so that any two   *)
(* values can be compared: k is the type, n an int's value, s a string's,  *)
(* kids the items of a list (<<"", item>>), the items of a dict            *)
(* (<<key, value>>) or the value a callable returns (<<"", value>>).       *)
(***************************************************************************)
NoKids == <<>>
None == [k |-> "none", n |-> 0, s |-> "", kids |-> NoKids]
PyInt(i) == [k |-> "int", n |-> i, s |-> "", kids |-> NoKids]
Str(x) == [k |-> "str", n |-> 0, s |-> x, kids |-> NoKids]
List(items) == [k |-> "list", n |-> 0, s |-> "",
                kids |-> [i \in 1..Len(items) |-> <<"", items[i]>>]]
Dict(pairs) == [k |-> "dict", n |-> 0, s |-> "", kids |-> pairs]
Fn(v) == [k |-> "fn", n |-> 0, s |-> "", kids |-> << <<"", v>> >>]

\* the items of a list value, as a sequence
Items(v) == [i \in 1..Len(v.kids) |-> v.kids[i][2]]
\* the keys of a dict value
Keys(d) == {d.kids[i][1] : i \in 1..Len(d.kids)}
\* d[key], for a key of d
Get(d, key) == LET i == CHOOSE j \in 1..Len(d.kids) : d.kids[j][1] = key
               IN d.kids[i][2]
\* Op of the value v: v is worked out once where Op uses it in several places
With(v, Op(_)) == Op(v)
\* dict.update(other): other's items replace or follow d's
DictUpdate(d, other) ==
    LET kept == SelectSeq(d.kids, LAMBDA p : p[1] \notin Keys(other))
    IN Dict(kept \o other.kids)

\* Python's truth value of v (`if value:`)
Truthy(v) ==
    CASE v.k = "none" -> FALSE
      [] v.k = "int" -> v.n # 0
      [] v.k = "str" -> v.s # "" \/ v.kids # NoKids
      [] v.k \in {"list", "dict"} -> v.kids # NoKids
      [] OTHER -> TRUE

\* callable(v)
Callable(v) == v.k = "fn"
\* v(), for a callable
CallFn(v) == v.kids[1][2]

(***************************************************************************)
(* Relation: the class attributes.                                         *)
(***************************************************************************)
SingularMethods == <<"limit", "offset", "from", "sql">>
PluralMethods == <<"select", "group", "order", "joins", "includes", "where", "having">>
Range(seq) == {seq[i] : i \in 1..Len(seq)}
\* Relation.aliases
AliasKeys == <<"from_", "conditions">>
Alias(key) == IF key = "from_" THEN "from" ELSE IF key = "conditions" THEN "where" ELSE key
\* the params that hold a Python list: the plural ones and 'modifiers'
ListKeys == PluralMethods \o <<"modifiers">>
KeyIndex(key) == CHOOSE i \in 1..Len(ListKeys) : ListKeys[i] = key

(***************************************************************************)
(* The includes tree: a dict of dicts, here a function from names to       *)
(* trees; {} is the empty function.                                        *)
(***************************************************************************)
EmptyTree == <<>>
Leaf(name) == [x \in {name} |-> EmptyTree]

\* Relation._deep_merge(a, b): b merged into a copy of a.  The values of b
\* are always dicts here, so `hasattr(v, 'iteritems')` is true of them.
RECURSIVE _deep_merge(_, _)
DeepMergeOverwrite(a, b) ==
    [x \in (DOMAIN a) \cup (DOMAIN b) |-> IF x \in DOMAIN b THEN b[x] ELSE a[x]]
_deep_merge(a, b) ==
    [x \in (DOMAIN a) \cup (DOMAIN b) |->
        IF x \in DOMAIN b
        THEN IF x \in DOMAIN a THEN _deep_merge(a[x], b[x]) ELSE b[x]
        ELSE a[x]]

\* Relation._get_includes_value(value): the tree of one includes value
RECURSIVE _get_includes_value(_)
RECURSIVE IncludesFold(_, _, _)
\* the loop of _get_includes_value over the items of a dict or list, from
\* item i on, with `includes` as built so far
IncludesFold(value, i, includes) ==
    IF i > Len(value.kids) THEN includes
    ELSE LET sub == _get_includes_value(value.kids[i][2])
             v == IF value.k = "dict"
                  THEN [x \in {value.kids[i][1]} |-> sub]
                  ELSE sub
         IN IncludesFold(value, i + 1, _deep_merge(includes, v))
_get_includes_value(value) ==
    IF ~Truthy(value) THEN EmptyTree
    ELSE IF value.k \in {"dict", "list"} THEN IncludesFold(value, 1, EmptyTree)
    ELSE Leaf(value.s)

\* Relation.includes_value() for the list `values` of params['includes']:
\* None (here the empty tree, which query() drops alike) when there are none
includes_value(values) ==
    IF values = <<>> THEN EmptyTree
    ELSE _get_includes_value(
            List([i \in 1..Len(values) |->
                    IF Callable(values[i]) THEN CallFn(values[i]) ELSE values[i]]))

(***************************************************************************)
(* The state.                                                              *)
(***************************************************************************)
VARIABLES
    rels,    \* the Relation objects, by identity 1..Len(rels)
    lists,   \* the Python lists held in params, by identity 1..Len(lists)
    calls,   \* the read adapter's log: one entry per fetch (TestAdapter.calls)
    live,    \* the Relations the caller holds (base relations and results)
    history, \* the calls the caller made, each with what it returned
    insts,   \* the model instances, by identity 1..Len(insts)
    memo,    \* what the association objects have memoized (_proxy_association,
             \* _source_association), by association and attribute
    local_cache, \* LocalCache: whether it is a middleware of the read stack of
             \* the model classes, and the entries of its cache_store, oldest first
    defined_models \* BaseMeta.defined_models: the model classes defined so far, in
             \* the order they were defined, each its name and its __module__

vars == <<rels, lists, calls, live, history, insts, memo, local_cache, defined_models>>

\* the model classes: Test has scopes, Other is another model class
Klasses == {"Test", "Other"}

\* Relation._query and Relation._records before anything is cached
\* (a query dict is its keys, the values of its query methods and the tree
\* under 'includes')
QueryKeys == Range(SingularMethods) \cup Range(PluralMethods)
EmptyQuery == [none |-> FALSE, keys |-> {},
               q |-> [m \in QueryKeys \ {"includes"} |-> None],
               includes |-> EmptyTree]
NoQuery == [EmptyQuery EXCEPT !.none = TRUE]
NoRecords == [none |-> TRUE, rows |-> <<>>]

(***************************************************************************)
(* A world is the heap an operation works on: w.rels, w.lists, w.calls,     *)
(* w.insts and w.memo as the variables, w.ret the Relation returned so far, *)
(* w.val the value returned where it is no Relation and w.err the          *)
(* exception raised ("" for none), w.assoc the association returned and    *)
(* w.name the name last looked up among the model classes.  An operation   *)
(* maps a world to a world; once an exception is raised the rest of the    *)
(* operation is skipped.  w.evals counts the calls the operation has made  *)
(* of the callables held as param values, w.options is the map of finder   *)
(* options last passed, as the operation has left it.                      *)
(***************************************************************************)
\* no LocalCache in the stack, and nothing in the store
NoLocalCache == [middleware |-> FALSE, store |-> <<>>]
World == [rels |-> rels, lists |-> lists, calls |-> calls, ret |-> 0, err |-> "",
          rows |-> <<>>, arg |-> 0, insts |-> insts, memo |-> memo, val |-> None,
          local_cache |-> local_cache,
          assoc |-> [kind |-> "", target_klass |-> "", id |-> "", options |-> Dict(<<>>)],
          name |-> <<>>, evals |-> 0, options |-> Dict(<<>>)]
Raise(w, e) == [w EXCEPT !.err = e, !.ret = 0]

\* params[key] of Relation r, for a key that holds a list: the list's items
ListOf(w, r, key) == w.lists[w.rels[r].plur[key]]

\* Relation.__init__(klass): every singular param None, every plural one and
\* 'modifiers' a new empty list
NewRelation(w, klass) ==
    LET base == Len(w.lists)
        rel == [klass |-> klass,
                sing |-> [m \in Range(SingularMethods) |-> None],
                plur |-> [m \in Range(ListKeys) |-> base + KeyIndex(m)],
                query |-> NoQuery,
                records |-> NoRecords]
    IN [w EXCEPT !.rels = Append(@, rel),
                 !.lists = @ \o [i \in 1..Len(ListKeys) |-> <<>>],
                 !.ret = Len(w.rels) + 1]

\* Relation._copy_params(params): a new list for every list of params, with
\* the items copied.  Returns the heap and the copied references.
CopyParamsShared(ls, plur) == [lists |-> ls, plur |-> plur]
_copy_params(ls, plur) ==
    [lists |-> ls \o [i \in 1..Len(ListKeys) |-> ls[plur[ListKeys[i]]]],
     plur |-> [m \in Range(ListKeys) |-> Len(ls) + KeyIndex(m)]]

\* Relation.clone() == Relation(self): the copy constructor takes klass and
\* a copy of params; _query and _records start as None
clone(w, r) ==
    LET cp == _copy_params(w.lists, w.rels[r].plur)
        rel == [klass |-> w.rels[r].klass,
                sing |-> w.rels[r].sing,
                plur |-> cp.plur,
                query |-> NoQuery,
                records |-> NoRecords]
    IN [w EXCEPT !.rels = Append(@, rel), !.lists = cp.lists,
                 !.ret = Len(w.rels) + 1]

\* the method create_singular_method(key) makes: clone, then set the param
singular_method(w, r, key, value) ==
    LET c == clone(w, r)
    IN [c EXCEPT !.rels[c.ret].sing[key] = value]

\* the method create_plural_method(key) makes, called as key(*args, **kwargs):
\* clone, extend the clone's list by the positional arguments, then append
\* the keyword arguments as one dict if there are any
PluralSpread(w, r, key, args, kwargs) ==
    LET c == clone(w, r)
        id == c.rels[c.ret].plur[key]
        flat == IF Len(args) = 1 /\ args[1].k = "list" THEN Items(args[1]) ELSE args
        added == IF kwargs.kids # NoKids THEN Append(flat, kwargs) ELSE flat
    IN [c EXCEPT !.lists[id] = @ \o added]
plural_method(w, r, key, args, kwargs) ==
    LET c == clone(w, r)
        id == c.rels[c.ret].plur[key]
        added == IF kwargs.kids # NoKids THEN Append(args, kwargs) ELSE args
    IN [c EXCEPT !.lists[id] = @ \o added]

\* Relation.modifiers(value): clone; None resets the clone's modifiers to a
\* new empty list, any other value is appended
modifiers(w, r, value) ==
    LET c == clone(w, r)
        id == c.rels[c.ret].plur["modifiers"]
    IN IF value = None
       THEN [c EXCEPT !.lists = Append(@, <<>>),
                      !.rels[c.ret].plur["modifiers"] = Len(c.lists) + 1]
       ELSE [c EXCEPT !.lists[id] = Append(@, value)]

\* getattr(self, method)(*args) for a query method or 'modifiers': a singular
\* method and modifiers take exactly one argument (TypeError otherwise)
CallMethod(w, r, method, args) ==
    IF w.err # "" THEN w
    ELSE IF method \in Range(PluralMethods)
    THEN plural_method(w, r, method, args, Dict(<<>>))
    ELSE IF Len(args) # 1 THEN Raise(w, "TypeError")
    ELSE IF method = "modifiers" THEN modifiers(w, r, args[1])
    ELSE singular_method(w, r, method, args[1])

\* Relation.merge(relation): clone self, then for every query method and
\* 'modifiers', in this order, apply relation's value if it is true: a list
\* as the method's arguments, anything else as its one argument
QueryMethodsOfMerge == SingularMethods \o PluralMethods \o <<"modifiers">>
RECURSIVE MergeLoop(_, _, _)
MergeLoop(w, b, i) ==
    IF i > Len(QueryMethodsOfMerge) \/ w.err # "" THEN w
    ELSE LET method == QueryMethodsOfMerge[i]
             self == w.ret
         IN IF method \in Range(SingularMethods)
            THEN LET value == w.rels[b].sing[method]
                 IN IF Truthy(value) /\ value.k = "list"
                    THEN MergeLoop(CallMethod(w, self, method, Items(value)), b, i + 1)
                    ELSE IF Truthy(value)
                    THEN MergeLoop(CallMethod(w, self, method, <<value>>), b, i + 1)
                    ELSE MergeLoop(w, b, i + 1)
            ELSE LET value == ListOf(w, b, method)
                 IN IF value # <<>>
                    THEN MergeLoop(CallMethod(w, self, method, value), b, i + 1)
                    ELSE MergeLoop(w, b, i + 1)
MergeChecked(w, a, b) ==
    IF w.rels[a].klass # w.rels[b].klass THEN Raise(w, "ArgumentError")
    ELSE MergeLoop(clone(w, a), b, 1)
merge(w, a, b) ==
    IF w.err # "" THEN w ELSE MergeLoop(clone(w, a), b, 1)

(***************************************************************************)
(* Model classes and associations (pyperry/association.py).  The model     *)
(* classes are those of tests/fixtures/association_models.py.  An          *)
(* instance is referred to by identity, a batch is a list of instances.    *)
(***************************************************************************)
True == [k |-> "bool", n |-> 1, s |-> "", kids |-> NoKids]
\* a model instance as a Python value, by identity
Inst(i) == [k |-> "inst", n |-> i, s |-> "", kids |-> NoKids]

\* A string that is not one word is written as its pieces: each piece is
\* either a run of letters or one other character.
Pieces(tokens) == [k |-> "str", n |-> 0, s |-> "",
                   kids |-> [i \in 1..Len(tokens) |-> <<tokens[i], None>>]]
\* the pieces of a string value
Tokens(v) == IF v.s # "" THEN <<v.s>> ELSE [i \in 1..Len(v.kids) |-> v.kids[i][1]]
\* the characters that are no letters, by how the regular expression of
\* _sanitize_type_attribute sees them: \w takes letters, digits and '_', the
\* range A-z takes the letters and the six characters between 'Z' and 'a'
Digits == {"1"}
Punctuation == {".", ";", " "}
BetweenZAndA == {"_", "^"}
NonLetters == Digits \cup Punctuation \cup BetweenZAndA
WordChar(t) == t \notin Punctuation \cup {"^"}
InRangeAz(t) == t \notin Digits \cup Punctuation

\* Association._sanitize_type_attribute(string):
\* re.sub('[^a-zA-z]\w*', '', string).  A match starts at a character outside
\* a-z and A-z and takes the word characters that follow; what is matched is
\* dropped.  `matching` says that the piece before i was matched.
RECURSIVE SubLoop(_, _, _)
SubLoop(tokens, i, matching) ==
    IF i > Len(tokens) THEN <<>>
    ELSE IF matching /\ WordChar(tokens[i]) THEN SubLoop(tokens, i + 1, TRUE)
    ELSE IF ~InRangeAz(tokens[i]) THEN SubLoop(tokens, i + 1, TRUE)
    ELSE <<tokens[i]>> \o SubLoop(tokens, i + 1, FALSE)
_sanitize_type_attribute(string) == SubLoop(Tokens(string), 1, FALSE)

\* the model classes (Base.defined_models) and their attributes
ModelKlasses == {"Site", "Article", "Comment", "Person"}
defined_attributes(klass) ==
    CASE klass = "Site" -> {"id", "name", "maintainer_id"}
      [] klass = "Article" -> {"id", "site_id", "author_id"}
      [] klass = "Comment" -> {"id", "person_id", "parent_id", "parent_type"}
      [] klass = "Person" -> {"id", "name"}
      [] OTHER -> {}
\* klass.primary_key(): no model class calls set_primary_key
primary_key_of(klass) == "id"
\* klass.__name__.lower()
Lower(klass) ==
    CASE klass = "Site" -> "site"
      [] klass = "Article" -> "article"
      [] klass = "Comment" -> "comment"
      [] klass = "Person" -> "person"
      [] OTHER -> klass

\* Base.__init__(attributes, new_record): a new instance of klass holding
\* the attributes of `record` that klass defines; no association is cached
\* and it has no attribute of its own besides (plain)
NewInstance(w, klass, record) ==
    [w EXCEPT !.insts = Append(@,
        [klass |-> klass,
         attrs |-> [x \in defined_attributes(klass) |->
                       IF x \in DOMAIN record THEN record[x] ELSE None],
         cache |-> <<>>,
         plain |-> <<>>])]

\* Association.__init__(**kwargs): `kind` stands for the subclass
Association(kind, target_klass, id, options) ==
    [kind |-> kind, target_klass |-> target_klass, id |-> id, options |-> options]
NoAssoc == Association("", "", "", Dict(<<>>))
BelongsTo(target_klass, id, options) == Association("belongs_to", target_klass, id, options)
HasOne(target_klass, id, options) == Association("has_one", target_klass, id, options)
HasManyDirectly(target_klass, id, options) ==
    Association("has_many", target_klass, id, options)
HasManyThrough(target_klass, id, options) ==
    Association("has_many_through", target_klass, id, options)
\* HasMany(**kwargs): a through option makes it a HasManyThrough
HasMany(target_klass, id, options) ==
    IF "through" \in Keys(options) /\ Get(options, "through") # None
    THEN HasManyThrough(target_klass, id, options)
    ELSE HasManyDirectly(target_klass, id, options)

\* self.options.get(key)
Option(a, key) == IF key \in Keys(a.options) THEN Get(a.options, key) ELSE None
\* type(), collection(), polymorphic() of the subclasses
type(a) == a.kind
collection(a) == a.kind \in {"has_many", "has_many_through"}
polymorphic(a) ==
    CASE a.kind = "belongs_to" ->
            "polymorphic" \in Keys(a.options) /\ Truthy(Get(a.options, "polymorphic"))
      [] a.kind = "has_many_through" -> FALSE
      [] OTHER -> "as_" \in Keys(a.options)
\* polymorphic_type(): '<id>_type' of a belongs-to, '<as_>_type' of a has
TypeAttr(name) ==
    CASE name = "parent" -> "parent_type"
      [] name = "maintainer" -> "maintainer_type"
      [] name = "site" -> "site_type"
      [] name = "author" -> "author_type"
      [] OTHER -> "type"
IdAttr(name) ==
    CASE name = "parent" -> "parent_id"
      [] name = "maintainer" -> "maintainer_id"
      [] name = "site" -> "site_id"
      [] name = "article" -> "article_id"
      [] name = "comment" -> "comment_id"
      [] name = "person" -> "person_id"
      [] name = "author" -> "author_id"
      [] OTHER -> "id"
polymorphic_type(a) ==
    IF a.kind = "belongs_to" THEN TypeAttr(a.id) ELSE TypeAttr(Get(a.options, "as_").s)
\* the foreign_key property: the option, else '<id>_id' of a belongs-to,
\* '<as_>_id' of a polymorphic has and '<target class in lower case>_id' of
\* any other has
foreign_key(a) ==
    IF Truthy(Option(a, "foreign_key")) THEN Option(a, "foreign_key").s
    ELSE IF a.kind = "belongs_to" THEN IdAttr(a.id)
    ELSE IF polymorphic(a) THEN IdAttr(Get(a.options, "as_").s)
    ELSE IdAttr(Lower(a.target_klass))

\* the associations the model classes declare (cls.defined_associations)
SqlLambda == Fn(Str("SELECT"))
Declared ==
    { BelongsTo("Site", "maintainer", Dict(<< <<"class_name", Str("Person")>> >>)),
      HasOne("Site", "headline", Dict(<< <<"class_name", Str("Article")>> >>)),
      HasOne("Site", "master_comment",
             Dict(<< <<"as_", Str("parent")>>, <<"class_name", Str("Comment")>> >>)),
      HasOne("Site", "fun_articles",
             Dict(<< <<"class_name", Str("Article")>>, <<"conditions", Str("1")>>,
                     <<"sql", SqlLambda>> >>)),
      HasMany("Site", "articles", Dict(<< <<"class_name", Str("Article")>> >>)),
      HasMany("Site", "comments",
              Dict(<< <<"as_", Str("parent")>>, <<"class_name", Str("Comment")>> >>)),
      HasMany("Site", "article_comments",
              Dict(<< <<"through", Str("articles")>>, <<"source", Str("comments")>> >>)),
      BelongsTo("Article", "site", Dict(<< <<"class_name", Str("Site")>> >>)),
      BelongsTo("Article", "author", Dict(<< <<"class_name", Str("Person")>> >>)),
      HasMany("Article", "comments",
              Dict(<< <<"as_", Str("parent")>>, <<"class_name", Str("Comment")>> >>)),
      HasMany("Article", "comment_authors",
              Dict(<< <<"through", Str("comments")>>, <<"source", Str("author")>> >>)),
      BelongsTo("Comment", "parent", Dict(<< <<"polymorphic", True>> >>)),
      BelongsTo("Comment", "author",
                Dict(<< <<"class_name", Str("Person")>>,
                        <<"foreign_key", Str("person_id")>> >>)),
      HasMany("Person", "comments",
              Dict(<< <<"class_name", Str("Comment")>>,
                      <<"foreign_key", Str("person_id")>> >>)),
      HasMany("Person", "sites",
              Dict(<< <<"class_name", Str("Site")>>,
                      <<"foreign_key", Str("maintainer_id")>> >>)),
      HasMany("Person", "commented_articles",
              Dict(<< <<"through", Str("comments")>>, <<"source", Str("parent")>>,
                      <<"source_type", Str("Article")>> >>)),
      HasMany("Person", "maintained_articles",
              Dict(<< <<"through", Str("sites")>>, <<"source", Str("articles")>> >>)) }
\* klass.defined_associations.get(id): NoAssoc stands for None
defined_associations(klass, id) ==
    IF \E a \in Declared : a.target_klass = klass /\ a.id = id
    THEN CHOOSE a \in Declared : a.target_klass = klass /\ a.id = id
    ELSE NoAssoc

\* Association.finder_options(): the query methods and the aliases
finder_options == SingularMethods \o PluralMethods \o AliasKeys

\* Association.eager_loadable(): no finder option is a function, and the
\* association is no polymorphic belongs-to
eager_loadable(a) ==
    /\ \A i \in 1..Len(finder_options) : ~Callable(Option(a, finder_options[i]))
    /\ ~(type(a) = "belongs_to" /\ polymorphic(a))

\* the model classes of the fixtures as BaseMeta.__new__ registers them
FixtureModule == <<"tests", ".", "fixtures", ".", "association_models">>
FixtureModels ==
    [i \in 1..4 |-> [name |-> <<<<"Site", "Article", "Comment", "Person">>[i]>>,
                     module |-> FixtureModule]]

\* Base.resolve_name(name) as _get_resolved_class uses it: the model classes
\* of that name; the name is the pieces `tokens`
resolve_name(tokens) ==
    IF Len(tokens) = 1 /\ tokens[1] \in ModelKlasses THEN {tokens[1]} ELSE {}

\* Association._get_resolved_class(string): w.name is the name looked up
_get_resolved_class(w, tokens) ==
    IF resolve_name(tokens) = {} THEN Raise([w EXCEPT !.name = tokens], "ModelNotDefined")
    ELSE [w EXCEPT !.name = tokens, !.val = Str(tokens[1])]

\* Association.source_klass(obj): obj is None, an instance, a batch (a list
\* of instances) or, from a through-association, the source_type string.
\* No association of the model has a klass or namespace option.
source_klass(w, a, obj) ==
    LET eager_loading == obj.k = "list"
        is_poly == "polymorphic" \in Keys(a.options)
                       /\ Truthy(Get(a.options, "polymorphic")) /\ Truthy(obj)
        poly_type == IF ~is_poly THEN None
                     ELSE IF obj.k = "inst"
                     THEN w.insts[obj.n].attrs[TypeAttr(a.id)]
                     ELSE obj
    IN IF w.err # "" THEN w
       ELSE IF eager_loading /\ ~eager_loadable(a)
       THEN Raise(w, "AssociationPreloadNotSupported")
       ELSE IF Truthy(poly_type)
       THEN _get_resolved_class(w, _sanitize_type_attribute(poly_type))
       ELSE IF ~Truthy(Option(a, "class_name")) THEN Raise(w, "ArgumentError")
       ELSE _get_resolved_class(w, Tokens(Option(a, "class_name")))

\* HasManyThrough.proxy_association(): the association of the target class
\* that the through option names, memoized
proxy_association(w, a) ==
    IF w.err # "" THEN w
    ELSE IF <<a, "_proxy_association">> \in DOMAIN w.memo
    THEN [w EXCEPT !.assoc = w.memo[<<a, "_proxy_association">>]]
    ELSE LET through == Option(a, "through")
             proxy == defined_associations(a.target_klass, through.s)
         IN IF proxy = NoAssoc THEN Raise(w, "AssociationNotFound")
            ELSE [w EXCEPT !.memo = @ @@ (<<a, "_proxy_association">> :> proxy),
                           !.assoc = proxy]

\* HasManyThrough.source_association(): the association of the proxy's
\* class named like this one or, if there is none, the one the source
\* option names; memoized
SourceLookup(source, a) ==
    IF defined_associations(source, a.id) # NoAssoc
    THEN defined_associations(source, a.id)
    ELSE defined_associations(source, Option(a, "source").s)
source_association(w, a) ==
    IF w.err # "" THEN w
    ELSE IF <<a, "_source_association">> \in DOMAIN w.memo
    THEN [w EXCEPT !.assoc = w.memo[<<a, "_source_association">>]]
    ELSE With(proxy_association(w, a), LAMBDA w1 :
         With(source_klass(w1, w1.assoc, None), LAMBDA w2 :
            LET association == SourceLookup(w2.val.s, a)
            IN IF w2.err # "" THEN w2
               ELSE IF association = NoAssoc THEN Raise(w2, "AssociationNotFound")
               ELSE [w2 EXCEPT !.memo = @ @@ (<<a, "_source_association">> :> association),
                               !.assoc = association]))

(***************************************************************************)
(* The scope of an association: the Relation over the source class that    *)
(* holds the records associated with an instance or with a batch.          *)
(***************************************************************************)
RECURSIVE scoped(_, _)
RECURSIVE apply_finder_options(_, _, _, _)
RECURSIVE fetch_records(_, _, _)

\* obj[key] and getattr(obj, key) of an instance: the attribute's value,
\* None if it was never set; a key the class does not define raises
Defined(w, obj, key) == key \in DOMAIN w.insts[obj.n].attrs
Item(w, obj, key) == w.insts[obj.n].attrs[key]
\* the instances of an instance or a batch, as a sequence
Objects(obj) == IF obj.k = "inst" THEN <<obj>> ELSE Items(obj)

\* Association.primary_key(target_instance): the option, else the primary
\* key of the source class of a belongs-to and of the target class of a has
primary_key(w, a, target_instance) ==
    IF w.err # "" THEN w
    ELSE IF Option(a, "primary_key") # None
    THEN [w EXCEPT !.val = Option(a, "primary_key")]
    ELSE IF a.kind = "belongs_to"
    THEN With(source_klass(w, a, target_instance), LAMBDA w1 :
            IF w1.err # "" THEN w1
            ELSE [w1 EXCEPT !.val = Str(primary_key_of(w1.val.s))])
    ELSE [w EXCEPT !.val = Str(primary_key_of(a.target_klass))]

\* Association._base_finder_options(obj): the finder options that are true,
\* a function replaced by what it returns
_base_finder_options(a) ==
    LET given == SelectSeq(finder_options, LAMBDA o : Truthy(Option(a, o)))
    IN Dict([i \in 1..Len(given) |->
                <<given[i], IF Callable(Option(a, given[i]))
                            THEN CallFn(Option(a, given[i]))
                            ELSE Option(a, given[i])>>])

\* Association._base_scope(obj):
\* source_klass(obj).scoped().apply_finder_options(_base_finder_options(obj))
_base_scope(w, a, obj) ==
    With(source_klass(w, a, obj), LAMBDA w1 :
        IF w1.err # "" THEN w1
        ELSE With(scoped(w1, w1.val.s), LAMBDA w2 :
                apply_finder_options(w2, w2.ret, _base_finder_options(a), Dict(<<>>))))

\* relation.where(d) for one dict d
Where(w, r, d) ==
    IF w.err # "" THEN w ELSE plural_method(w, r, "where", <<d>>, Dict(<<>>))

\* BelongsTo.scope(obj_or_list): the base scope where the primary key is
\* the foreign key value of the instance, or the list of those of the
\* batch; None (w.ret = 0) for an instance whose foreign key is None
BelongsTo_scope(w, a, obj) ==
    LET fk == foreign_key(a)
        objs == Objects(obj)
        keys == IF obj.k = "inst" THEN Item(w, obj, fk)
                ELSE List([i \in 1..Len(objs) |-> Item(w, objs[i], fk)])
    IN IF w.err # "" THEN w
       ELSE IF \E i \in 1..Len(objs) : ~Defined(w, objs[i], fk) THEN Raise(w, "KeyError")
       ELSE IF keys = None THEN [w EXCEPT !.ret = 0]
       ELSE With(_base_scope(w, a, obj), LAMBDA w1 :
            With(primary_key(w1, a, obj), LAMBDA w2 :
               Where(w2, w1.ret, Dict(<< <<w2.val.s, keys>> >>))))

\* Has.scope(obj_or_list): the base scope where the foreign key is the
\* primary key value of the instance, or the list of those of the batch,
\* and, for a polymorphic association, the type attribute is the class name
\* of the instance (of the first one of a batch)
TypeClause(w, r, a, obj) ==
    IF polymorphic(a)
    THEN Where(w, r, Dict(<< <<polymorphic_type(a), Str(w.insts[obj.n].klass)>> >>))
    ELSE w
Has_scope(w, a, obj) ==
    IF w.err # "" THEN w
    ELSE With(primary_key(w, a, None), LAMBDA w0 :
        LET pk_attr == w0.val.s
            objs == Objects(obj)
            keys == IF obj.k = "inst" THEN Item(w, obj, pk_attr)
                    ELSE List([i \in 1..Len(objs) |-> Item(w, objs[i], pk_attr)])
        IN IF \E i \in 1..Len(objs) : ~Defined(w, objs[i], pk_attr)
           THEN Raise(w, "KeyError")
           ELSE IF objs = <<>> THEN Raise(w, "IndexError")
           ELSE IF keys = None THEN [w EXCEPT !.ret = 0]
           ELSE With(_base_scope(w0, a, obj), LAMBDA w1 :
                With(Where(w1, w1.ret, Dict(<< <<foreign_key(a), keys>> >>)), LAMBDA w2 :
                   TypeClause(w2, w2.ret, a, objs[1]))))

\* the function HasManyThrough.scope hands to where(): it holds the
\* association and obj and, when called, returns {key: proxy_ids()}
Closure(a, obj) ==
    [k |-> "fn", n |-> 1, s |-> a.id,
     kids |-> << <<a.target_klass, a.options>>, <<"obj", obj>> >>]
IsClosure(v) == v.k = "fn" /\ v.n = 1
ClosureAssociation(c) == HasManyThrough(c.kids[1][1], c.s, c.kids[1][2])
ClosureObj(c) == c.kids[2][2]

\* (a scope over the proxy's class instead)
ProxyScope(w, a, obj) ==
    With(proxy_association(w, a), LAMBDA w1 :
        IF w1.assoc.kind = "belongs_to" THEN BelongsTo_scope(w1, w1.assoc, obj)
        ELSE Has_scope(w1, w1.assoc, obj))

\* HasManyThrough.scope(obj): a Relation over the source association's
\* class, scoped() of it, with the closure as where-value; the proxy's
\* records are read when the closure is called, that is when the query is
\* built
HasManyThrough_scope(w, a, obj) ==
    IF w.err # "" THEN w
    ELSE
    With(source_association(w, a), LAMBDA w1 :
    With(proxy_association(w1, a), LAMBDA w2 :
    With(IF w1.assoc.kind = "belongs_to" THEN w2
         ELSE primary_key(w2, w1.assoc, None), LAMBDA w3 :
    With(source_klass(w3, w1.assoc, Option(a, "source_type")), LAMBDA w4 :
    With(IF w4.err # "" THEN w4
         ELSE With(scoped(w4, w4.val.s), LAMBDA w5 :
                 Where(w5, w5.ret, Closure(a, obj))), LAMBDA w6 :
        IF w1.assoc.kind # "belongs_to" /\ w6.err = "" /\ polymorphic(w1.assoc)
        THEN With(source_klass(w6, w2.assoc, obj), LAMBDA w7 :
                Where(w7, w6.ret, Dict(<< <<polymorphic_type(w1.assoc), w7.val>> >>)))
        ELSE w6)))))

\* association.scope(obj)
Scope(w, a, obj) ==
    CASE a.kind = "belongs_to" -> BelongsTo_scope(w, a, obj)
      [] a.kind = "has_many_through" -> HasManyThrough_scope(w, a, obj)
      [] OTHER -> Has_scope(w, a, obj)

\* proxy_ids(): the proxy's scope for obj is built and its records read;
\* w.val is the list of their values of key_attr
RECURSIVE ProxyIdsLoop(_, _, _, _, _, _)
ProxyIdsLoop(w, proxy, objs, key_attr, i, ids) ==
    IF w.err # "" THEN w
    ELSE IF i > Len(objs) THEN [w EXCEPT !.val = List(ids)]
    ELSE With(Scope(w, proxy, objs[i]), LAMBDA w1 :
            IF w1.err # "" THEN w1
            ELSE IF w1.ret = 0 THEN Raise(w1, "TypeError")
            ELSE With(fetch_records(w1, w1.ret, 0), LAMBDA w2 :
                    IF w2.err # "" THEN w2
                    ELSE IF \E j \in 1..Len(w2.rows) :
                               ~Defined(w2, Inst(w2.rows[j]), key_attr)
                    THEN Raise(w2, "AttributeError")
                    ELSE ProxyIdsLoop(w2, proxy, objs, key_attr, i + 1,
                            ids \o [j \in 1..Len(w2.rows) |->
                                       Item(w2, Inst(w2.rows[j]), key_attr)])))
ProxyIdsPerParent(w, proxy, obj, key_attr) ==
    ProxyIdsLoop(w, proxy, Objects(obj), key_attr, 1, <<>>)
proxy_ids(w, proxy, obj, key_attr) ==
    ProxyIdsLoop(w, proxy, <<obj>>, key_attr, 1, <<>>)

\* the closure called: the key is the source's primary key if the source is
\* a belongs-to and its foreign key otherwise, the value is proxy_ids() with
\* the source's foreign key (belongs-to) or primary key as key_attr
CallClosure(w, c) ==
    With(source_association(w, ClosureAssociation(c)), LAMBDA w1 :
    With(proxy_association(w1, ClosureAssociation(c)), LAMBDA w2 :
    With(primary_key(w2, w1.assoc,
                     IF w1.assoc.kind = "belongs_to"
                     THEN Option(ClosureAssociation(c), "source_type") ELSE None),
         LAMBDA w3 :
    With(proxy_ids(w3, w2.assoc, ClosureObj(c),
                   IF w1.assoc.kind = "belongs_to" THEN foreign_key(w1.assoc)
                   ELSE w3.val.s), LAMBDA w4 :
        IF w4.err # "" THEN w4
        ELSE [w4 EXCEPT !.val =
                 Dict(<< <<IF w1.assoc.kind = "belongs_to" THEN w3.val.s
                           ELSE foreign_key(w1.assoc), w4.val>> >>)]))))

(***************************************************************************)
(* query() and the fetch.                                                  *)
(***************************************************************************)
\* Relation._eval_lambdas(value): a list item by item, a callable called
RECURSIVE _eval_lambdas(_)
_eval_lambdas(value) ==
    IF value.k = "list"
    THEN List([i \in 1..Len(value.kids) |-> _eval_lambdas(value.kids[i][2])])
    ELSE IF Callable(value) THEN CallFn(value)
    ELSE value
\* the calls _eval_lambdas(value) makes
RECURSIVE Lambdas(_), LambdasFrom(_, _)
LambdasFrom(value, i) ==
    IF i > Len(value.kids) THEN 0
    ELSE Lambdas(value.kids[i][2]) + LambdasFrom(value, i + 1)
Lambdas(value) ==
    IF value.k = "list" THEN LambdasFrom(value, 1)
    ELSE IF Callable(value) THEN 1
    ELSE 0

\* params[method] as a Python value
Param(w, r, method) ==
    IF method \in Range(SingularMethods) THEN w.rels[r].sing[method]
    ELSE List(ListOf(w, r, method))

\* params['fresh']: the singular query method local_cache.py adds to
\* Relation.  Only a Relation that fresh() made holds it here, any other has
\* None; where it is a key of query() its value is the True fresh() set.
FreshParam(w, r) ==
    IF "fresh" \in DOMAIN w.rels[r].sing THEN w.rels[r].sing["fresh"] ELSE None

\* the dict query() builds: every query method but includes whose param is
\* true, with its lambdas evaluated, and the includes tree if it is not empty
QueryMethodsOfQuery ==
    SelectSeq(PluralMethods \o SingularMethods, LAMBDA m : m # "includes")
BuildQuery(w, r) ==
    LET set == {m \in Range(QueryMethodsOfQuery) : Truthy(Param(w, r, m))}
        tree == includes_value(ListOf(w, r, "includes"))
    IN [none |-> FALSE,
        keys |-> set \cup (IF tree # EmptyTree THEN {"includes"} ELSE {})
                     \cup (IF Truthy(FreshParam(w, r)) THEN {"fresh"} ELSE {}),
        q |-> [m \in QueryKeys \ {"includes"} |->
                  IF m \in set THEN _eval_lambdas(Param(w, r, m)) ELSE None],
        includes |-> tree]

\* _eval_lambdas over the items of params['where'] from item i on, where an
\* item may be the closure of a through-association, whose call reads the
\* proxy's records; `seen` are the values so far, w.val is the value of all
RECURSIVE EvalWhere(_, _, _, _)
EvalWhere(w, items, i, seen) ==
    IF w.err # "" THEN w
    ELSE IF i > Len(items) THEN [w EXCEPT !.val = List(seen)]
    ELSE IF IsClosure(items[i])
    THEN With(CallClosure([w EXCEPT !.evals = @ + 1], items[i]), LAMBDA w1 :
            EvalWhere(w1, items, i + 1, Append(seen, w1.val)))
    ELSE EvalWhere([w EXCEPT !.evals = @ + Lambdas(items[i])], items, i + 1,
                   Append(seen, _eval_lambdas(items[i])))

\* the calls of callables query() makes when it builds the dict: for each
\* method in turn whose param is true _eval_lambdas' calls, then a call of
\* each callable in params['includes'].  CalledBefore counts the methods
\* before `stop` (all if stop is none of them), CalledFrom those after it
\* and the includes.
RECURSIVE CalledIn(_, _, _, _)
CalledIn(w, r, methods, i) ==
    IF i > Len(methods) THEN 0
    ELSE (IF Truthy(Param(w, r, methods[i])) THEN Lambdas(Param(w, r, methods[i])) ELSE 0)
         + CalledIn(w, r, methods, i + 1)
Position(methods, stop) ==
    IF \E i \in 1..Len(methods) : methods[i] = stop
    THEN CHOOSE i \in 1..Len(methods) : methods[i] = stop
    ELSE Len(methods) + 1
CalledBefore(w, r, stop) ==
    CalledIn(w, r, SubSeq(QueryMethodsOfQuery, 1, Position(QueryMethodsOfQuery, stop) - 1), 1)
CalledFrom(w, r, stop) ==
    CalledIn(w, r, SubSeq(QueryMethodsOfQuery, Position(QueryMethodsOfQuery, stop) + 1,
                          Len(QueryMethodsOfQuery)), 1)
    + Cardinality({i \in 1..Len(ListOf(w, r, "includes")) :
                      Callable(ListOf(w, r, "includes")[i])})

\* `if self._query`: a cached dict that is not empty
QueryCached(rel) == ~rel.query.none /\ rel.query.keys # {}

\* the dict query() is left with when a where-value raises: the plural
\* methods before 'where' that are true
QueryBeforeWhere(w, r) ==
    LET q == BuildQuery(w, r)
        before == {"select", "group", "order", "joins"}
    IN [q EXCEPT !.keys = @ \cap before,
                 !.q = [m \in DOMAIN @ |-> IF m \in before THEN @[m] ELSE None],
                 !.includes = EmptyTree]

\* Relation.query(): the cached dict if there is one that is not empty, else
\* the dict built now, which is cached
query(w, r) ==
    IF QueryCached(w.rels[r]) THEN w
    ELSE IF \E i \in 1..Len(ListOf(w, r, "where")) : IsClosure(ListOf(w, r, "where")[i])
    THEN With(EvalWhere([w EXCEPT !.evals = @ + CalledBefore(w, r, "where")],
                        ListOf(w, r, "where"), 1, <<>>), LAMBDA w1 :
            IF w1.err # ""
            THEN [w1 EXCEPT !.rels[r].query = QueryBeforeWhere(w1, r)]
            ELSE [w1 EXCEPT !.rels[r].query =
                                [BuildQuery(w1, r) EXCEPT !.q["where"] = w1.val],
                            !.evals = @ + CalledFrom(w1, r, "where")])
    ELSE [w EXCEPT !.rels[r].query = BuildQuery(w, r),
                   !.evals = @ + CalledBefore(w, r, "") + CalledFrom(w, r, "")]

\* what r.query() returns in world w
QueryValue(w, r) == query(w, r).rels[r].query
\* the same without calling the functions of through-associations among the
\* where-values: they are left as they are, and nothing is read
QueryHeld(w, r) ==
    IF QueryCached(w.rels[r]) THEN w.rels[r].query
    ELSE IF \E i \in 1..Len(ListOf(w, r, "where")) : IsClosure(ListOf(w, r, "where")[i])
    THEN [BuildQuery(w, r) EXCEPT !.q["where"] = List(ListOf(w, r, "where"))]
    ELSE BuildQuery(w, r)

(***************************************************************************)
(* The read adapter of the model classes: a store that answers a query     *)
(* with the records its where-dicts and limit select, the ModelBridge,     *)
(* which makes instances of them, and the PreloadAssociations processor.   *)
(***************************************************************************)
RECURSIVE all(_, _, _, _, _)

\* the records of the store
Store(klass) ==
    CASE klass = "Site" ->
            << [id |-> PyInt(1), name |-> Str("a"), maintainer_id |-> PyInt(1)],
               [id |-> PyInt(2), name |-> Str("b"), maintainer_id |-> PyInt(2)],
               [id |-> PyInt(3), name |-> Str("c"), maintainer_id |-> None],
               [id |-> PyInt(4), name |-> Str("d"), maintainer_id |-> PyInt(100)] >>
      [] klass = "Article" ->
            << [id |-> PyInt(1), site_id |-> PyInt(1), author_id |-> PyInt(1)],
               [id |-> PyInt(2), site_id |-> PyInt(1), author_id |-> PyInt(2)],
               [id |-> PyInt(3), site_id |-> PyInt(2), author_id |-> PyInt(1)] >>
      [] klass = "Comment" ->
            << [id |-> PyInt(1), person_id |-> PyInt(1), parent_id |-> PyInt(1),
                parent_type |-> Str("Site")],
               [id |-> PyInt(2), person_id |-> PyInt(2), parent_id |-> PyInt(1),
                parent_type |-> Str("Article")],
               [id |-> PyInt(3), person_id |-> PyInt(1), parent_id |-> PyInt(2),
                parent_type |-> Str("Site")],
               [id |-> PyInt(4), person_id |-> PyInt(2), parent_id |-> PyInt(3),
                parent_type |-> Str("Article")] >>
      [] klass = "Person" ->
            << [id |-> PyInt(1), name |-> Str("p")],
               [id |-> PyInt(2), name |-> Str("q")] >>
      [] OTHER -> <<>>

\* a record is selected by the where-values `where` (a list or None) if it
\* agrees with every dict among them: for each key its value is the dict's
\* value or, if that is a list, one of its items; any other where-value is
\* a condition the store takes as true
Matches(record, where) ==
    \A i \in 1..Len(where.kids) :
        LET d == where.kids[i][2]
        IN d.k = "dict" =>
              \A j \in 1..Len(d.kids) :
                  LET key == d.kids[j][1]
                      v == d.kids[j][2]
                  IN /\ key \in DOMAIN record
                     /\ IF v.k = "list" THEN record[key] \in Range(Items(v))
                        ELSE record[key] = v

\* the instances ModelBridge.handle_read makes of the records, from record
\* i on; w.rows are the instances made
RECURSIVE handle_read(_, _, _, _)
handle_read(w, klass, records, i) ==
    IF i > Len(records) THEN w
    ELSE LET w1 == NewInstance(w, klass, records[i])
         IN handle_read([w1 EXCEPT !.rows = Append(@, Len(w1.insts))],
                        klass, records, i + 1)

\* CacheStore.read(key): the result stored under key, None (here found
\* FALSE) if there is none; CacheStore.write(key, val): the entry of key is
\* the newest.  An entry that has expired is taken out by Elapse.  A result
\* is the list of records an adapter read returned, val.result, and val.read
\* tells which read it was, its number among the calls of the adapter (0 for
\* one made before the first call), so that the lists of two reads are two
\* lists even when their records are equal.
CacheStore_read(store, key) ==
    IF \E e \in 1..Len(store) : store[e].key = key
    THEN [found |-> TRUE,
          result |-> store[CHOOSE e \in 1..Len(store) : store[e].key = key].result,
          read |-> store[CHOOSE e \in 1..Len(store) : store[e].key = key].read]
    ELSE [found |-> FALSE, result |-> <<>>, read |-> 0]
CacheStore_write(store, key, val) ==
    Append(SelectSeq(store, LAMBDA e : e.key # key),
           [key |-> key, result |-> val.result, read |-> val.read])

\* LocalCache.__call__(relation=r): the key is the class and query(); the
\* next item of the stack, the adapter that reads `records` from the store,
\* is called when nothing or an empty result is cached or params['fresh'] is
\* true (caching.enabled is True); the result is written to the cache.
\* Above it ModelBridge makes the instances of the result.
LocalCache(w, r, key, records) ==
    LET cached == CacheStore_read(w.local_cache.store, key)
        stale == ~cached.found \/ cached.result = <<>> \/ Truthy(FreshParam(w, r))
        result == IF stale THEN records ELSE cached.result
    IN handle_read([w EXCEPT !.calls = IF stale
                                       THEN Append(@, [rel |-> r, query |-> key.query,
                                                       n |-> Len(records)])
                                       ELSE @,
                             !.local_cache.store =
                                 CacheStore_write(@, key,
                                     [result |-> result,
                                      read |-> IF stale THEN Len(w.calls) + 1
                                               ELSE cached.read]),
                             !.rows = <<>>],
                   w.rels[r].klass, result, 1)

\* the adapter's read of the store, below the processors: the relation's
\* query() is built and logged, the selected records, cut to the limit, are
\* made instances
StoreRead(w, r) ==
    With(query(w, r), LAMBDA w1 :
        LET q == w1.rels[r].query
            klass == w1.rels[r].klass
            selected == SelectSeq(Store(klass), LAMBDA rec : Matches(rec, q.q["where"]))
            records == IF q.q["limit"].k = "int" /\ q.q["limit"].n < Len(selected)
                       THEN SubSeq(selected, 1, q.q["limit"].n)
                       ELSE selected
            key == [klass |-> klass, query |-> q]
        IN IF w1.err # "" THEN w1
           ELSE IF w1.local_cache.middleware
           THEN LocalCache(w1, r, key, records)
           ELSE handle_read([w1 EXCEPT !.calls = Append(@, [rel |-> r, query |-> q,
                                                            n |-> Len(records)]),
                                       !.rows = <<>>],
                            klass, records, 1))

\* a Relation as a Python value, by identity
Rel(r) == [k |-> "rel", n |-> r, s |-> "", kids |-> NoKids]

\* Association.__set__(instance, value): the value is cached on the
\* instance under cache_id
Association__set__(w, a, instance, value) ==
    [w EXCEPT !.insts[instance].cache =
                  [x \in (DOMAIN @) \cup {a.id} |-> IF x = a.id THEN value ELSE @[x]]]

\* setattr(instance, key, value) for a key that is no association: a
\* defined attribute is set, any other key becomes a plain attribute
SetAttribute(w, instance, key, value) ==
    IF key \in DOMAIN w.insts[instance].attrs
    THEN [w EXCEPT !.insts[instance].attrs[key] = value]
    ELSE [w EXCEPT !.insts[instance].plain =
                       [x \in (DOMAIN @) \cup {key} |-> IF x = key THEN value ELSE @[x]]]

\* BelongsTo.__set__(instance, value): caches the value, then sets the
\* foreign key of the instance to the value's primary key, and the type
\* attribute to its class name (`if self.polymorphic:` tests the method and
\* is true of every belongs-to); both None for the value None
BelongsTo__set__(w, a, instance, value) ==
    LET w1 == Association__set__(w, a, instance, value)
        pk == IF value = None THEN None
              ELSE Item(w, value, primary_key_of(w.insts[value.n].klass))
        type_name == IF value = None THEN None ELSE Str(w.insts[value.n].klass)
    IN SetAttribute(SetAttribute(w1, instance, foreign_key(a), pk),
                    instance, TypeAttr(a.id), type_name)

\* setattr(instance, association.id, value): the association is a data
\* descriptor of the class, so its __set__ takes the assignment
SetAssociation(w, a, instance, value) ==
    IF a.kind = "belongs_to" THEN BelongsTo__set__(w, a, instance, value)
    ELSE Association__set__(w, a, instance, value)

\* the records among `records` that go to `result`: those whose primary key
\* is the result's foreign key (belongs-to), or whose foreign key is the
\* result's primary key (any other association)
AnyRecord(w, a, pk, fk, rec, result) == TRUE
KeyMatch(w, a, pk, fk, rec, result) ==
    IF type(a) = "belongs_to"
    THEN Item(w, Inst(rec), pk) = Item(w, Inst(result), fk)
    ELSE Item(w, Inst(rec), fk) = Item(w, Inst(result), pk)

\* PreloadAssociations.add_records_to_scope(association, records, result):
\* the scope of the association for the one result gets the matching
\* records as its _records and is set on the result; an association that
\* is no collection gets the first matching record, or None
add_records_to_scope(w, a, records, result) ==
    IF w.err # "" THEN w
    ELSE
    With(Scope(w, a, Inst(result)), LAMBDA w1 :
    With(primary_key(w1, a, None), LAMBDA w2 :
        LET scope == w1.ret
            pk == w2.val.s
            fk == foreign_key(a)
            recAttr == IF type(a) = "belongs_to" THEN pk ELSE fk
            resAttr == IF type(a) = "belongs_to" THEN fk ELSE pk
            matched == SelectSeq(records,
                                 LAMBDA rec : KeyMatch(w2, a, pk, fk, rec, result))
            scope_value == IF collection(a) THEN Rel(scope)
                           ELSE IF Len(matched) > 0 THEN Inst(matched[1]) ELSE None
        IN IF w2.err # "" THEN w2
           ELSE IF records # <<>> /\ (~Defined(w2, Inst(records[1]), recAttr)
                                       \/ ~Defined(w2, Inst(result), resAttr))
           THEN Raise(w2, "AttributeError")
           ELSE IF scope = 0 THEN Raise(w2, "AttributeError")
           ELSE SetAssociation([w2 EXCEPT !.rels[scope].records =
                                              [none |-> FALSE, rows |-> matched]],
                               a, result, scope_value)))

\* the names of an includes tree in the order the dict is walked, and a
\* tree as the dict of dicts it is
IncludeOrder == <<"nothing", "maintainer", "headline", "master_comment", "fun_articles",
                  "articles", "comments", "article_comments", "site", "author",
                  "parent", "comment_authors", "sites", "zilch">>
Walk(tree) == SelectSeq(IncludeOrder, LAMBDA x : x \in DOMAIN tree)
RECURSIVE TreeValue(_)
TreeValue(tree) ==
    Dict([i \in 1..Len(Walk(tree)) |-> <<Walk(tree)[i], TreeValue(tree[Walk(tree)[i]])>>])

\* Relation.modifiers_value(): the dicts of params['modifiers'] combined
RECURSIVE ModifiersFold(_, _, _)
ModifiersFold(values, i, combined) ==
    IF i > Len(values) THEN combined
    ELSE ModifiersFold(values, i + 1,
            DictUpdate(combined, IF Callable(values[i]) THEN CallFn(values[i])
                                 ELSE values[i]))
modifiers_value(w, r) == ModifiersFold(ListOf(w, r, "modifiers"), 1, Dict(<<>>))

\* the loop of do_preload over the included names, from name i on
RECURSIVE PreloadLoop(_, _, _, _, _)
RECURSIVE AttachLoop(_, _, _, _, _)
AttachLoop(w, a, eager_records, results, j) ==
    IF j > Len(results) \/ w.err # "" THEN w
    ELSE AttachLoop(add_records_to_scope(w, a, eager_records, results[j]),
                    a, eager_records, results, j + 1)
UnknownInclude(w, r, includes, results, i) == Raise(w, "AssociationNotFound")
PreloadLoop(w, r, includes, results, i) ==
    IF i > Len(Walk(includes)) \/ w.err # "" THEN w
    ELSE LET association_id == Walk(includes)[i]
             association == defined_associations(w.rels[r].klass, association_id)
         IN IF association = NoAssoc THEN UnknownInclude(w, r, includes, results, i)
            ELSE
            With(Scope(w, association,
                       List([j \in 1..Len(results) |-> Inst(results[j])])), LAMBDA w1 :
            With(IF w1.err # "" THEN w1
                 ELSE plural_method(w1, w1.ret, "includes",
                                    <<TreeValue(includes[association_id])>>,
                                    Dict(<<>>)), LAMBDA w2 :
            With(IF w2.err # "" THEN w2
                 ELSE all(w2, w2.ret,
                          Dict(<< <<"modifiers", modifiers_value(w2, r)>> >>),
                          Dict(<<>>), 0), LAMBDA w3 :
                PreloadLoop(AttachLoop(w3, association, w3.rows, results, 1),
                            r, includes, results, i + 1))))

\* PreloadAssociations.do_preload(results, relation=rel)
do_preload(w, r, results) ==
    PreloadLoop(w, r, query(w, r).rels[r].query.includes, results, 1)

\* PreloadAssociations.__call__(relation=r, mode='read'): the read of the
\* stack below, then the preload if there are results
PreloadAssociations(w, r) ==
    With(StoreRead(w, r), LAMBDA w1 :
        IF w1.err # "" \/ Len(w1.rows) = 0 THEN w1
        ELSE With(do_preload(w1, r, w1.rows), LAMBDA w2 :
                IF w2.err # "" THEN w2 ELSE [w2 EXCEPT !.rows = w1.rows]))

\* klass.fetch_records(relation): the read adapter is called with the
\* relation.  The adapter of Test and Other reads its query() and answers
\* with n rows; the adapter of the model classes reads the store.
AdapterRead(w, r, n) ==
    IF w.rels[r].klass \in ModelKlasses THEN PreloadAssociations(w, r)
    ELSE With(query(w, r), LAMBDA w1 :
            [w1 EXCEPT !.calls = Append(@, [rel |-> r, query |-> w1.rels[r].query,
                                            n |-> n]),
                       !.rows = [i \in 1..n |-> i]])

\* Relation.fetch_records(): fetch when _records is None, and cache the list
FetchUnlessRows(w, r, n) ==
    IF w.err # "" THEN w
    ELSE IF w.rels[r].records.rows = <<>>
    THEN LET w1 == AdapterRead(w, r, n)
         IN [w1 EXCEPT !.rels[r].records = [none |-> FALSE, rows |-> w1.rows]]
    ELSE [w EXCEPT !.rows = w.rels[r].records.rows]
fetch_records(w, r, n) ==
    IF w.err # "" THEN w
    ELSE IF w.rels[r].records.none
    THEN With(AdapterRead(w, r, n), LAMBDA w1 :
            IF w1.err # "" THEN w1
            ELSE [w1 EXCEPT !.rels[r].records = [none |-> FALSE, rows |-> w1.rows]])
    ELSE [w EXCEPT !.rows = w.rels[r].records.rows]

(***************************************************************************)
(* Finder options.                                                         *)
(***************************************************************************)
\* valid_methods of apply_finder_options
ValidMethods == SingularMethods \o PluralMethods \o AliasKeys \o <<"modifiers">>

\* the loop of apply_finder_options over the keys of options that are valid
\* methods.  Python walks them in the order of a set; the model walks them
\* in the order of valid_methods.
RECURSIVE FinderLoop(_, _, _)
FinderLoop(w, options, i) ==
    IF i > Len(ValidMethods) \/ w.err # "" THEN w
    ELSE LET key == ValidMethods[i]
         IN IF key \in Keys(options) /\ Truthy(Get(options, key))
            THEN FinderLoop(CallMethod(w, w.ret, Alias(key), <<Get(options, key)>>),
                            options, i + 1)
            ELSE FinderLoop(w, options, i + 1)

\* Relation.apply_finder_options(options, **kwargs): clone, update a copy of
\* options with kwargs, call the method of every valid key whose value is
\* true; the map passed is left as it is
FinderAmbiguous(w, r, options, kwargs) ==
    IF w.err # "" THEN w
    ELSE IF options.kids # NoKids /\ kwargs.kids # NoKids
    THEN Raise(w, "ArgumentError")
    ELSE FinderLoop([clone(w, r) EXCEPT !.options = options],
                    DictUpdate(options, kwargs), 1)
apply_finder_options(w, r, options, kwargs) ==
    IF w.err # "" THEN w
    ELSE FinderLoop([clone(w, r) EXCEPT !.options = options],
                    DictUpdate(options, kwargs), 1)

\* Relation.all(options, **kwargs); w.options is the map this call was
\* passed, whatever the fetch passes on in calls of its own
all(w, r, options, kwargs, n) ==
    With(apply_finder_options(w, r, options, kwargs), LAMBDA w1 :
        [fetch_records(w1, w1.ret, n) EXCEPT !.options = w1.options])

\* the map first() is passed after its options.update({'limit': 1}), which
\* changes the map itself
FirstOptions(options) == DictUpdate(options, Dict(<< <<"limit", PyInt(1)>> >>))

\* Relation.first(options, **kwargs): limit 1 is put into options, and all()
\* is passed that map
first(w, r, options, kwargs, n) ==
    all(w, r, FirstOptions(options), kwargs, n)

(***************************************************************************)
(* Scopes (Base.scope) and their use through a Relation (DelayedMerge).    *)
(***************************************************************************)
\* Base.relation(): the Relation a model class keeps as cls._relation
KlassRelation(klass) ==
    CASE klass = "Test" -> 1
      [] klass = "Other" -> 2
      [] klass = "Site" -> 3
      [] klass = "Article" -> 4
      [] klass = "Comment" -> 5
      [] klass = "Person" -> 6

\* Base.scoped(): no default scope is declared, so current_scope() is None
\* and scoped() is relation().clone()
scoped(w, klass) == IF w.err # "" THEN w ELSE clone(w, KlassRelation(klass))

\* cls.scopes of the model classes.  Test declares
\*     cls.scope('foo', where='bar')
\*     cls.scope('name_like', lambda cls, word: cls.where(word))
\* and Other declares no scope.
Scopes(klass) == IF klass = "Test" THEN {"foo", "name_like"} ELSE {}
FooOptions == Dict(<< <<"where", Str("bar")>> >>)

\* the function Base.scope() registers under `name`, called with arg: the
\* options are parsed (_parse_scope_options), then applied to cls.scoped()
\* (_apply_scope_options).  A scope function's Relation is tested with
\* `if not options`, which takes its len() and so fetches it (n rows).
scope(w, klass, name, arg, n) ==
    IF w.err # "" THEN w
    ELSE IF name = "foo"
    THEN With(scoped(w, klass), LAMBDA w1 :
            apply_finder_options(w1, w1.ret, FooOptions, Dict(<<>>)))
    ELSE With(scoped(w, klass), LAMBDA w1 :
         With(CallMethod(w1, w1.ret, "where", <<arg>>), LAMBDA w2 :
         With(fetch_records(w2, w2.ret, n), LAMBDA w3 :
            IF w3.rows = <<>> THEN Raise(w3, "ArgumentError")
            ELSE With(scoped(w3, klass), LAMBDA w4 :
                    merge(w4, w4.ret, w2.ret)))))

\* Relation.__getattr__(name)(arg) for a name that is no query method: a
\* scope of klass is called and its result merged onto r (DelayedMerge);
\* any other name raises AttributeError
ScopeUnmerged(w, r, name, arg, n) ==
    IF name \notin Scopes(w.rels[r].klass) THEN Raise(w, "AttributeError")
    ELSE scope(w, w.rels[r].klass, name, arg, n)
DelayedMerge(w, r, name, arg, n) ==
    IF name \notin Scopes(w.rels[r].klass) THEN Raise(w, "AttributeError")
    ELSE With(scope(w, w.rels[r].klass, name, arg, n), LAMBDA w1 :
            IF w1.err # "" THEN w1 ELSE [merge(w1, r, w1.ret) EXCEPT !.arg = w1.ret])

(***************************************************************************)
(* The calls a caller makes.  Each is one step: the whole call, with every *)
(* Relation it creates on the way.                                         *)
(***************************************************************************)
\* klass and params of Relation i in world w, each list by its items
WParams(w, i) == [klass |-> w.rels[i].klass,
                  sing |-> w.rels[i].sing,
                  plur |-> [m \in Range(ListKeys) |-> ListOf(w, i, m)]]
\* the same for no Relation
NoParams == [klass |-> "", sing |-> [m \in Range(SingularMethods) |-> None],
             plur |-> [m \in Range(ListKeys) |-> <<>>]]

NoCall == [op |-> "", recv |-> 0, other |-> 0, key |-> "", args |-> <<>>,
           kwargs |-> Dict(<<>>), options |-> Dict(<<>>), ret |-> 0, rel |-> 0,
           err |-> "", rows |-> <<>>, row |-> 0, nrels |-> 0, ncalls |-> 0,
           fetched |-> 0, params |-> NoParams, query |-> NoQuery, cached |-> FALSE,
           assoc |-> NoAssoc, result |-> NoAssoc, val |-> None, name |-> <<>>,
           obj |-> None, evals |-> 0, store |-> <<>>, options_after |-> Dict(<<>>),
           before |-> <<>>]

\* the call made last
Last == IF history = <<>> THEN NoCall ELSE history[Len(history)]

\* the step: the heap becomes w's and the call is added to the history with
\* what it returned: ret the Relation returned (held by the caller from now
\* on) with the params and the query dict it had then (QueryHeld) and
\* whether it had a cached _query or _records then, rows the list returned,
\* rel the Relation the call ended with, other the Relation a scope handed
\* to merge, fetched the fetches it made, evals the calls of callable param
\* values it made, store what the cache held when it was made, options_after
\* the map of finder options it was passed as it is after the call
Commit(w, call, returnsRelation) ==
    /\ Len(history) < MaxOps
    /\ rels' = w.rels
    /\ lists' = w.lists
    /\ calls' = w.calls
    /\ insts' = w.insts
    /\ memo' = w.memo
    /\ local_cache' = w.local_cache
    /\ UNCHANGED defined_models
    /\ live' = IF returnsRelation /\ w.err = "" THEN live \cup {w.ret} ELSE live
    /\ history' = Append(history,
            [call EXCEPT !.ret = IF returnsRelation /\ w.err = "" THEN w.ret ELSE 0,
                         !.rel = IF w.err = "" THEN w.ret ELSE 0,
                         !.other = IF w.arg # 0 THEN w.arg ELSE call.other,
                         !.err = w.err,
                         !.rows = IF returnsRelation \/ w.err # "" THEN <<>> ELSE w.rows,
                         !.nrels = Len(rels),
                         !.ncalls = Len(calls),
                         !.fetched = Len(w.calls) - Len(calls),
                         !.evals = w.evals,
                         !.store = local_cache.store,
                         !.options_after = w.options,
                         !.params = IF returnsRelation /\ w.err = ""
                                    THEN WParams(w, w.ret) ELSE NoParams,
                         !.query = IF returnsRelation /\ w.err = ""
                                   THEN QueryHeld(w, w.ret) ELSE NoQuery,
                         !.cached = /\ returnsRelation /\ w.err = ""
                                    /\ ~(w.rels[w.ret].query.none
                                          /\ w.rels[w.ret].records.none)])

Singular(r, key, value) ==
    Commit(singular_method(World, r, key, value),
           [NoCall EXCEPT !.op = "singular", !.recv = r, !.key = key,
                          !.args = <<value>>], TRUE)

Plural(r, key, args, kwargs) ==
    Commit(plural_method(World, r, key, args, kwargs),
           [NoCall EXCEPT !.op = "plural", !.recv = r, !.key = key,
                          !.args = args, !.kwargs = kwargs], TRUE)

Modifiers(r, value) ==
    Commit(modifiers(World, r, value),
           [NoCall EXCEPT !.op = "modifiers", !.recv = r, !.key = "modifiers",
                          !.args = <<value>>], TRUE)

Merge(a, b) ==
    Commit(merge(World, a, b),
           [NoCall EXCEPT !.op = "merge", !.recv = a, !.other = b], TRUE)

ApplyFinderOptions(r, options, kwargs) ==
    Commit(apply_finder_options(World, r, options, kwargs),
           [NoCall EXCEPT !.op = "apply_finder_options", !.recv = r,
                          !.options = options, !.kwargs = kwargs], TRUE)

ScopeCall(r, name, arg, n) ==
    Commit(DelayedMerge(World, r, name, arg, n),
           [NoCall EXCEPT !.op = "scope", !.recv = r, !.key = name,
                          !.args = <<arg>>], TRUE)

Clone(r) ==
    Commit(clone(World, r), [NoCall EXCEPT !.op = "clone", !.recv = r], TRUE)

Query(r) ==
    Commit([query(World, r) EXCEPT !.ret = r],
           [NoCall EXCEPT !.op = "query", !.recv = r], FALSE)

FetchRecords(r, n) ==
    Commit([fetch_records(World, r, n) EXCEPT !.ret = r],
           [NoCall EXCEPT !.op = "fetch_records", !.recv = r], FALSE)

All(r, options, kwargs, n) ==
    Commit(all(World, r, options, kwargs, n),
           [NoCall EXCEPT !.op = "all", !.recv = r, !.options = options,
                          !.kwargs = kwargs], FALSE)

First(r, options, kwargs, n) ==
    With(first(World, r, options, kwargs, n), LAMBDA w :
        Commit(w, [NoCall EXCEPT !.op = "first", !.recv = r, !.options = options,
                                 !.kwargs = kwargs,
                                 !.row = IF w.err = "" /\ Len(w.rows) > 0
                                         THEN w.rows[1] ELSE 0], FALSE))

(***************************************************************************)
(* The initial state: the Relation of each model class, nothing fetched.   *)
(* The caller holds the Relations of `held`.                               *)
(***************************************************************************)
InitWorld ==
    NewRelation(NewRelation([rels |-> <<>>, lists |-> <<>>, calls |-> <<>>,
                             ret |-> 0, err |-> "", rows |-> <<>>, arg |-> 0,
                             insts |-> <<>>, memo |-> <<>>, val |-> None,
                             local_cache |-> NoLocalCache,
                             assoc |-> NoAssoc, name |-> <<>>, evals |-> 0,
                             options |-> Dict(<<>>)],
                            "Test"), "Other")

\* the same with the Relation of each model class of the associations
InitModels ==
    NewRelation(NewRelation(NewRelation(NewRelation(InitWorld, "Site"), "Article"),
                            "Comment"), "Person")

InitHolding(held) ==
    /\ rels = InitWorld.rels
    /\ lists = InitWorld.lists
    /\ calls = <<>>
    /\ live = held
    /\ history = <<>>
    /\ insts = InitWorld.insts
    /\ memo = InitWorld.memo
    /\ local_cache = NoLocalCache
    /\ defined_models = FixtureModels

(***************************************************************************)
(* The values the callers of the model pass.                               *)
(***************************************************************************)
X == Str("x")
Y == Str("y")
KwA == Dict(<< <<"a", X>> >>)
NoKw == Dict(<<>>)
NoOptions == Dict(<<>>)
SingularInputs == {<<"limit", PyInt(0)>>, <<"limit", PyInt(5)>>}
PluralInputs == {<< <<List(<<X, Y>>)>>, NoKw >>, << <<KwA>>, NoKw >>, << <<X, Y>>, KwA >>}
WhereOptions == Dict(<< <<"conditions", Y>>, <<"offset", PyInt(0)>> >>)
\* the read adapter answers a fetch with no row or with MaxRows rows
Adapted == {0, MaxRows}

(***************************************************************************)
(* What a caller can see of Relation i.                                    *)
(***************************************************************************)
\* params[m] of Relation i, for a param that holds a list
PList(i, m) == lists[rels[i].plur[m]]
\* klass and params of Relation i
ParamsOf(i) == WParams(World, i)
\* what i.query() returns
QueryOf(i) == QueryValue(World, i)
\* the fetches Relation i made
FetchesOf(i) == {c \in 1..Len(calls) : calls[c].rel = i}

(***************************************************************************)
(* Spec: a caller that holds Test's Relation chains clause calls on it and *)
(* on what they return.                                                    *)
(***************************************************************************)
Init == InitHolding({KlassRelation("Test")})

Next ==
    \/ \E r \in live : Singular(r, "limit", PyInt(5))
    \/ \E r \in live, a \in PluralInputs : Plural(r, "where", a[1], a[2])
    \/ \E r \in live : Modifiers(r, KwA)
    \/ \E a \in live, b \in live : Merge(a, b)
    \/ \E r \in live : ApplyFinderOptions(r, WhereOptions, NoKw)
    \/ \E r \in live : ScopeCall(r, "foo", None, 0)
    \/ \E r \in live : Query(r)

Spec == Init /\ [][Next]_vars

\* the calls that are clause calls
ClauseOps == {"singular", "plural", "modifiers", "merge", "apply_finder_options", "scope"}

\* C1: every clause call (a singular or plural query method, modifiers,
\* merge, apply_finder_options, a scope called through the Relation) returned
\* a Relation that did not exist before it, and after any sequence of calls
\* every Relation the caller was handed still has the klass, the params and
\* the query() it had when it was returned, as do the Relations of the model
\* classes: no call changes its receiver or any other Relation.
C1_Immutability ==
    /\ \A k \in Klasses :
          /\ ParamsOf(KlassRelation(k)) = [NoParams EXCEPT !.klass = k]
          /\ QueryOf(KlassRelation(k)) = EmptyQuery
    /\ \A h \in 1..Len(history) :
          (history[h].op \in ClauseOps /\ history[h].err = "")
              => /\ history[h].ret > history[h].nrels
                 /\ history[h].ret \in live
                 /\ ParamsOf(history[h].ret) = history[h].params
                 /\ QueryOf(history[h].ret) = history[h].query

\* C1 witness: a plural call was made on a Relation that already held where
\* values and whose query() was cached, and returned a Relation with more
C1_Witness ==
    /\ Last.op = "plural" /\ Last.ret # 0
    /\ \E h \in 1..Len(history) : history[h].ret = Last.recv
    /\ PList(Last.recv, "where") # <<>>
    /\ QueryCached(rels[Last.recv])
    /\ Len(PList(Last.ret, "where")) > Len(PList(Last.recv, "where"))

\* what Python makes of key(*args, **kwargs): the positional arguments, then
\* the keyword arguments as one dict if any were given
Passed(call) ==
    IF call.kwargs.kids # NoKids THEN Append(call.args, call.kwargs) ELSE call.args
\* the same with a single list argument spread into its items
PassedSpread(call) ==
    IF Len(call.args) = 1 /\ call.args[1].k = "list" /\ call.kwargs.kids = NoKids
    THEN Items(call.args[1])
    ELSE Passed(call)

\* C6 as claimed: a plural call returns a new Relation whose values are the
\* receiver's followed by the arguments, a single sequence argument spread
\* into its items and a single map argument appended as one item.
C6_Original ==
    \A h \in 1..Len(history) :
        (history[h].op = "plural" /\ history[h].err = "")
            => PList(history[h].ret, history[h].key)
                 = PList(history[h].recv, history[h].key) \o PassedSpread(history[h])

\* C6 as amended: a plural call returns a new Relation whose values are the
\* receiver's followed by the positional arguments, each as one item (a list
\* as one item that is the list, a map as one item), then the keyword
\* arguments as one map if any were given.
C6_PluralAppends ==
    \A h \in 1..Len(history) :
        (history[h].op = "plural" /\ history[h].err = "")
            => /\ history[h].ret > history[h].nrels
               /\ PList(history[h].ret, history[h].key)
                    = PList(history[h].recv, history[h].key) \o Passed(history[h])

\* C6 witness: a plural call with a single list argument on a Relation that
\* already held values returned a Relation with that list as its last value
C6_Witness ==
    /\ Last.op = "plural" /\ Last.ret # 0
    /\ Len(Last.args) = 1 /\ Last.args[1].k = "list"
    /\ PList(Last.recv, "where") # <<>>
    /\ PList(Last.ret, "where")[Len(PList(Last.ret, "where"))] = Last.args[1]

(***************************************************************************)
(* SpecMerge: a caller that holds the Relations of two model classes       *)
(* builds Relations and merges them.                                       *)
(***************************************************************************)
InitMerge == InitHolding({KlassRelation("Test"), KlassRelation("Other")})

NextMerge ==
    \/ \E r \in live, kv \in SingularInputs : Singular(r, kv[1], kv[2])
    \/ \E r \in live : Plural(r, "where", <<X>>, NoKw)
    \/ \E r \in live : Plural(r, "order", <<Y>>, NoKw)
    \/ \E a \in live, b \in live : Merge(a, b)

SpecMerge == InitMerge /\ [][NextMerge]_vars

\* the params a.merge(b) gives its result when every singular param b has
\* set (is not None) replaces a's
MergedSet(a, b) ==
    [klass |-> rels[a].klass,
     sing |-> [m \in Range(SingularMethods) |->
                  IF rels[b].sing[m] # None THEN rels[b].sing[m] ELSE rels[a].sing[m]],
     plur |-> [m \in Range(ListKeys) |-> PList(a, m) \o PList(b, m)]]
\* the same when every singular param of b that is true in Python replaces a's
MergedTrue(a, b) ==
    [klass |-> rels[a].klass,
     sing |-> [m \in Range(SingularMethods) |->
                  IF Truthy(rels[b].sing[m]) THEN rels[b].sing[m] ELSE rels[a].sing[m]],
     plur |-> [m \in Range(ListKeys) |-> PList(a, m) \o PList(b, m)]]

\* C4: for Relations a and b over the same model class a.merge(b) returns a
\* new Relation in which every plural param holds a's values followed by
\* b's and every singular param holds b's value where b has one set, a's
\* otherwise.  (a and b are as they were: params never change, C1.)
C4_MergeSemantics ==
    \A h \in 1..Len(history) :
        (/\ history[h].op = "merge"
         /\ rels[history[h].recv].klass = rels[history[h].other].klass)
            => /\ history[h].err = ""
               /\ history[h].ret > history[h].nrels
               /\ ParamsOf(history[h].ret) = MergedSet(history[h].recv, history[h].other)

LimitTen == Dict(<< <<"limit", PyInt(10)>> >>)
FirstInputs == {<<NoOptions, NoKw>>, <<LimitTen, NoKw>>, <<NoOptions, LimitTen>>}

NextFetch ==
    \/ \E r \in live : Singular(r, "limit", PyInt(5))
    \/ \E r \in live : Clone(r)
    \/ \E r \in live : Query(r)
    \/ \E r \in live, n \in Adapted : FetchRecords(r, n)
    \/ \E r \in live, n \in Adapted : All(r, NoOptions, NoKw, n)
    \/ \E r \in live, a \in FirstInputs, n \in Adapted : First(r, a[1], a[2], n)

SpecFetch == Init /\ [][NextFetch]_vars

\* C2: two calls of r.all() with no options on the same Relation r issue
\* exactly one fetch in total (the model has no fresh()), and the second
\* returns the records the first returned.
C2_AllFetchesOnce ==
    \A g \in 1..Len(history) : \A h \in 1..Len(history) :
        (/\ g < h
         /\ history[g].op = "all" /\ history[h].op = "all"
         /\ history[g].recv = history[h].recv
         /\ history[g].options = NoOptions /\ history[g].kwargs = NoKw
         /\ history[h].options = NoOptions /\ history[h].kwargs = NoKw)
            => /\ history[g].fetched + history[h].fetched = 1
               /\ history[h].rows = history[g].rows

\* C3: the caches belong to the instance.  No Relation is fetched twice; a
\* Relation that holds records holds the list its own fetch returned, an
\* empty list too; a Relation that holds a query dict holds the one built
\* from its own params; and the Relation a clone or a clause call returns
\* has neither, whatever its origin holds.
C3_Memoization ==
    /\ \A i \in 1..Len(rels) :
          /\ Cardinality(FetchesOf(i)) <= 1
          /\ rels[i].records.none <=> FetchesOf(i) = {}
          /\ \A c \in FetchesOf(i) :
                rels[i].records.rows = [j \in 1..calls[c].n |-> j]
          /\ ~rels[i].query.none => rels[i].query = BuildQuery(World, i)
    /\ \A h \in 1..Len(history) :
          /\ history[h].ret # 0 => ~history[h].cached
          /\ (history[h].op = "fetch_records" /\ history[h].err = "")
                => history[h].rows = rels[history[h].recv].records.rows

\* C3 witness: a Relation was fetched and got no row, was fetched again
\* without a second read, and then cloned
C3_Witness ==
    /\ Len(history) >= 3
    /\ Last.op = "clone" /\ Last.ret # 0
    /\ rels[Last.recv].records = [none |-> FALSE, rows |-> <<>>]
    /\ QueryCached(rels[Last.recv]) \/ ~rels[Last.recv].query.none
    /\ \E g \in 1..Len(history) : \E h \in 1..Len(history) :
          /\ g < h
          /\ history[g].op = "fetch_records" /\ history[h].op = "fetch_records"
          /\ history[g].recv = Last.recv /\ history[h].recv = Last.recv
          /\ history[g].fetched = 1 /\ history[h].fetched = 0

\* C9: r.first() and r.first(options) make one fetch with limit 1 in force
\* and return the first record, or none when the fetch returns no record.
C9_FirstLimitOne ==
    \A h \in 1..Len(history) :
        history[h].op = "first"
            => /\ history[h].err = ""
               /\ history[h].fetched = 1
               /\ calls[history[h].ncalls + 1].query.q["limit"] = PyInt(1)
               /\ history[h].row = (IF calls[history[h].ncalls + 1].n > 0 THEN 1 ELSE 0)

(***************************************************************************)
(* SpecOptions: a caller passes finder options as a map, as keywords and   *)
(* as both.                                                                *)
(***************************************************************************)
FromFoo == Dict(<< <<"from", Str("foo")>> >>)
WhereBar == Dict(<< <<"where", Str("bar")>> >>)
LimitFive == Dict(<< <<"limit", PyInt(5)>> >>)
OptionInputs == {<<FromFoo, WhereBar>>, <<FromFoo, NoKw>>, <<NoOptions, WhereBar>>,
                 <<LimitFive, LimitTen>>}

NextOptions ==
    \/ \E r \in live, a \in OptionInputs : ApplyFinderOptions(r, a[1], a[2])
    \/ \E r \in live, n \in Adapted : All(r, FromFoo, WhereBar, n)
    \/ \E r \in live, n \in Adapted : First(r, FromFoo, WhereBar, n)

SpecOptions == Init /\ [][NextOptions]_vars

\* the calls that take finder options
FinderOps == {"apply_finder_options", "all", "first"}
\* a call that was given both a map of options and keywords
BothGiven(call) ==
    call.op \in FinderOps /\ call.options # NoOptions /\ call.kwargs # NoKw

Given(call, m) ==
    IF m \in Keys(call.kwargs) THEN Get(call.kwargs, m)
    ELSE IF m = "limit" /\ call.op = "first" THEN PyInt(1)
    ELSE IF m \in Keys(call.options) THEN Get(call.options, m)
    ELSE None

A == Str("a")
B == Str("b")
C == Str("c")
IncludeInputs ==
    {<< <<A>>, NoKw >>,
     << <<Dict(<< <<"a", B>> >>)>>, NoKw >>,
     << <<B, Dict(<< <<"a", List(<<C, Dict(<< <<"b", C>> >>)>>)>> >>)>>, NoKw >>,
     << <<List(<<A, C>>)>>, NoKw >>,
     << <<>>, Dict(<< <<"a", C>> >>) >>,
     << <<Fn(Dict(<< <<"c", A>> >>))>>, NoKw >>}

NextIncludes ==
    \/ \E r \in live, a \in IncludeInputs : Plural(r, "includes", a[1], a[2])
    \/ \E r \in live : Query(r)

SpecIncludes == Init /\ [][NextIncludes]_vars

\* the paths of names an includes value asks for: a name is the path of
\* that name, a list asks for what its items ask for, a map for each key and,
\* below the key, for what the key's value asks for
RECURSIVE ValuePaths(_)
ValuePaths(v) ==
    IF v.k = "str" THEN (IF v.s = "" THEN {} ELSE {<<v.s>>})
    ELSE IF v.k = "list" THEN UNION {ValuePaths(v.kids[i][2]) : i \in 1..Len(v.kids)}
    ELSE IF v.k = "dict"
    THEN UNION {{<<v.kids[i][1]>>}
                  \cup {<<v.kids[i][1]>> \o p : p \in ValuePaths(v.kids[i][2])}
                : i \in 1..Len(v.kids)}
    ELSE IF v.k = "fn" THEN ValuePaths(CallFn(v))
    ELSE {}
\* the paths of a tree
RECURSIVE TreePaths(_)
TreePaths(tree) ==
    UNION {{<<x>>} \cup {<<x>> \o p : p \in TreePaths(tree[x])} : x \in DOMAIN tree}
\* a sequence back to front
Reverse(seq) == [i \in 1..Len(seq) |-> seq[Len(seq) + 1 - i]]

\* C8: the includes tree of every Relation is the union of what the values
\* passed to includes ask for, over all the calls of the chain and all the
\* arguments of a call: its paths are exactly the paths of the values.  So
\* nothing given earlier is lost, a duplicate adds nothing, and the values
\* given in the opposite order make the same tree.  query() holds that tree
\* under 'includes' when it is not empty.
C8_IncludesUnion ==
    \A i \in 1..Len(rels) :
        LET values == PList(i, "includes")
            tree == includes_value(values)
        IN /\ TreePaths(tree) = UNION {ValuePaths(values[j]) : j \in 1..Len(values)}
           /\ includes_value(Reverse(values)) = tree
           /\ includes_value(values \o values) = tree
           /\ ~rels[i].query.none
                 => /\ rels[i].query.includes = tree
                    /\ "includes" \in rels[i].query.keys <=> values # <<>>

\* C8 witness: includes({'a': 'b'}) and later includes('a') gave a tree that
\* still has b below a
C8_Witness ==
    /\ Last.op = "plural" /\ Last.key = "includes" /\ Last.ret # 0
    /\ Last.args = <<A>>
    /\ \E j \in 1..Len(PList(Last.recv, "includes")) :
          PList(Last.recv, "includes")[j] = Dict(<< <<"a", B>> >>)
    /\ <<"a", "b">> \in TreePaths(includes_value(PList(Last.ret, "includes")))

(***************************************************************************)
(* SpecScope: a caller that holds Test's Relation chains clause calls and  *)
(* the scopes of Test.                                                     *)
(***************************************************************************)
NextScope ==
    \/ \E r \in live : Plural(r, "where", <<X>>, NoKw)
    \/ \E r \in live : Singular(r, "limit", PyInt(5))
    \/ \E r \in live : ScopeCall(r, "foo", None, 0)
    \/ \E r \in live, n \in Adapted : ScopeCall(r, "name_like", Y, n)
    \/ \E r \in live : ScopeCall(r, "bar", None, 0)

SpecScope == Init /\ [][NextScope]_vars

\* the where values of the Relation a scope of Test returns when called on
\* the model class
ScopeWhere(call) == IF call.key = "foo" THEN <<Str("bar")>> ELSE call.args

ProxyAssociation(a) ==
    With(proxy_association(World, a), LAMBDA w :
        Commit(w, [NoCall EXCEPT !.op = "proxy_association", !.assoc = a,
                                 !.result = IF w.err = "" THEN w.assoc ELSE NoAssoc],
               FALSE))

SourceAssociation(a) ==
    With(source_association(World, a), LAMBDA w :
        Commit(w, [NoCall EXCEPT !.op = "source_association", !.assoc = a,
                                 !.result = IF w.err = "" THEN w.assoc ELSE NoAssoc],
               FALSE))

\* through-associations on Person: the proxy 'sites' leads to Site, which
\* declares articles and comments but neither x nor nope; a_tunnel is no
\* association of Person
Through(id, through, source) ==
    HasMany("Person", id,
            IF source = "" THEN Dict(<< <<"through", Str(through)>> >>)
            ELSE Dict(<< <<"through", Str(through)>>, <<"source", Str(source)>> >>))
ThroughInputs ==
    { Through("x", "a_tunnel", ""), Through("x", "sites", ""),
      Through("articles", "sites", ""), Through("maintained_articles", "sites", "articles"),
      Through("comments", "sites", "articles"), Through("comments", "sites", "nope"),
      Through("x", "sites", "nope") }

InitResolve == InitHolding({})
NextResolve ==
    \/ \E a \in ThroughInputs : ProxyAssociation(a)
    \/ \E a \in ThroughInputs : SourceAssociation(a)
SpecResolve == InitResolve /\ [][NextResolve]_vars

\* the source name in force: the source option if given, else the
\* association's own name
EffectiveSource(a) ==
    IF "source" \in Keys(a.options) THEN Get(a.options, "source").s ELSE a.id
\* the class the proxy association of `a` leads to
ProxyKlass(a) ==
    Get(defined_associations(a.target_klass, Get(a.options, "through").s).options,
        "class_name").s

\* C11: resolving the source association of a through-association raises
\* AssociationNotFound if its class has no association under the through
\* name, raises AssociationNotFound if the proxy's class has no association
\* under the effective source name, and otherwise returns the association of
\* the proxy's class under the effective source name: the one the source
\* option names whenever that option is given, the one named like the
\* through-association only when it is not.
C11_SourceResolution ==
    \A h \in 1..Len(history) :
        LET call == history[h]
            a == call.assoc
            proxy == defined_associations(a.target_klass, Get(a.options, "through").s)
        IN call.op = "source_association" =>
              IF proxy = NoAssoc THEN call.err = "AssociationNotFound"
              ELSE IF defined_associations(ProxyKlass(a), EffectiveSource(a)) = NoAssoc
              THEN call.err = "AssociationNotFound"
              ELSE /\ call.err = ""
                   /\ call.result = defined_associations(ProxyKlass(a), EffectiveSource(a))

(***************************************************************************)
(* SpecSanitize: a Comment read from the store holds any string in         *)
(* parent_type; the class of its polymorphic belongs-to `parent` is        *)
(* resolved.                                                               *)
(***************************************************************************)
SourceKlass(a, obj) ==
    With(source_klass(World, a, obj), LAMBDA w :
        Commit(w, [NoCall EXCEPT !.op = "source_klass", !.assoc = a, !.obj = obj,
                                 !.name = w.name,
                                 !.val = IF w.err = "" THEN w.val ELSE None],
               FALSE))

\* the pieces a type tag is made of, and the tags of up to n pieces
TagAlphabet == {"Site", "bar", ".", ";", " ", "_", "^", "1"}
RECURSIVE Tags(_)
Tags(n) ==
    IF n = 0 THEN {<<>>}
    ELSE Tags(n - 1) \cup {Append(t, x) : t \in {u \in Tags(n - 1) : Len(u) = n - 1},
                                          x \in TagAlphabet}

InitSanitize ==
    /\ rels = InitWorld.rels
    /\ lists = InitWorld.lists
    /\ calls = <<>>
    /\ live = {}
    /\ history = <<>>
    /\ memo = InitWorld.memo
    /\ local_cache = NoLocalCache
    /\ defined_models = FixtureModels
    /\ \E tag \in Tags(MaxTag) :
          insts = NewInstance(InitWorld, "Comment",
                              [id |-> PyInt(1), parent_id |-> PyInt(1),
                               parent_type |-> Pieces(tag)]).insts
NextSanitize ==
    \E i \in 1..Len(insts) :
        SourceKlass(defined_associations(insts[i].klass, "parent"), Inst(i))
SpecSanitize == InitSanitize /\ [][NextSanitize]_vars

\* C14: whatever string the type tag of a polymorphic belongs-to holds, the
\* name looked up among the model classes holds letters only: no character
\* of the tag that is not a letter reaches the lookup.
C14_SanitizedName ==
    \A h \in 1..Len(history) :
        LET call == history[h]
        IN (call.op = "source_klass" /\ polymorphic(call.assoc)) =>
              \A t \in Range(call.name) : t \notin NonLetters

(***************************************************************************)
(* SpecEager: the caller holds instances of Site and Comment and builds    *)
(* the scope of an association for one of them or for a batch, as the      *)
(* preload does for the results of a read (a batch is never empty there).  *)
(***************************************************************************)
AssociationScope(a, obj) ==
    With(Scope(World, a, obj), LAMBDA w :
        Commit(w, [NoCall EXCEPT !.op = "association_scope", !.assoc = a, !.obj = obj],
               w.err = "" /\ w.ret # 0))

\* the instances the caller made of the first two records of klass
RECURSIVE Made(_, _, _)
Made(w, klasses, i) ==
    IF i > Len(klasses) THEN w
    ELSE Made(NewInstance(NewInstance(w, klasses[i], Store(klasses[i])[1]),
                          klasses[i], Store(klasses[i])[2]),
              klasses, i + 1)
InitWith(klasses) ==
    /\ rels = InitModels.rels
    /\ lists = InitModels.lists
    /\ calls = <<>>
    /\ live = {}
    /\ history = <<>>
    /\ insts = Made(InitModels, klasses, 1).insts
    /\ memo = InitModels.memo
    /\ local_cache = NoLocalCache
    /\ defined_models = FixtureModels

\* one instance of klass, and the batch of its two
HeldOf(klass) ==
    LET held == SelectSeq([i \in 1..Len(insts) |-> i], LAMBDA i : insts[i].klass = klass)
    IN IF Len(held) < 2 THEN {}
       ELSE {Inst(held[1]), List(<<Inst(held[1]), Inst(held[2])>>)}

\* a through-association of Site whose own finder option is a function
FunComments ==
    HasMany("Site", "fun_comments",
            Dict(<< <<"through", Str("articles")>>, <<"source", Str("comments")>>,
                    <<"conditions", Fn(Str("1"))>> >>))
EagerInputs ==
    {a \in Declared : a.target_klass \in {"Site", "Comment"}} \cup {FunComments}

InitEager == InitWith(<<"Site", "Comment">>)
NextEager ==
    \E a \in EagerInputs : \E obj \in HeldOf(a.target_klass) : AssociationScope(a, obj)
SpecEager == InitEager /\ [][NextEager]_vars

\* an association with a finder option that is a function, or a polymorphic
\* belongs-to
NotPreloadable(a) ==
    \/ \E o \in Range(SingularMethods) \cup Range(PluralMethods) \cup Range(AliasKeys) :
          Option(a, o).k = "fn"
    \/ a.kind = "belongs_to" /\ Option(a, "polymorphic") = True

\* C15: an association with a function among its finder options and a
\* polymorphic belongs-to are not preloadable, and building the scope of
\* such an association from a batch raises AssociationPreloadNotSupported;
\* every other association is preloadable: its scope for a batch is built.
C15_PreloadEligibility ==
    \A h \in 1..Len(history) :
        LET call == history[h]
        IN (call.op = "association_scope" /\ call.obj.k = "list") =>
              /\ eager_loadable(call.assoc) = ~NotPreloadable(call.assoc)
              /\ IF NotPreloadable(call.assoc)
                 THEN call.err = "AssociationPreloadNotSupported"
                 ELSE call.err = "" /\ call.ret # 0

(***************************************************************************)
(* SpecThrough: the caller holds instances of Site, Article and Person,    *)
(* builds the scope of a has-many-through association for one of them or   *)
(* for a batch and reads it.                                               *)
(***************************************************************************)
ThroughAssociations == {a \in Declared : a.kind = "has_many_through"}

InitThrough == InitWith(<<"Site", "Article", "Person">>)
NextThrough ==
    \/ \E a \in ThroughAssociations : \E obj \in HeldOf(a.target_klass) :
          AssociationScope(a, obj)
    \/ \E r \in live : All(r, NoOptions, NoKw, 0)
    \/ \E r \in live : Query(r)
SpecThrough == InitThrough /\ [][NextThrough]_vars

\* the call that built Relation r as the scope of a through-association,
\* 0 if there is none
ScopeCallOf(r) ==
    IF \E g \in 1..Len(history) :
          /\ history[g].op = "association_scope" /\ history[g].ret = r
          /\ history[g].assoc.kind = "has_many_through"
    THEN CHOOSE g \in 1..Len(history) :
          /\ history[g].op = "association_scope" /\ history[g].ret = r
          /\ history[g].assoc.kind = "has_many_through"
    ELSE 0

\* C12: reading a through-association with all(), for one instance or for a
\* batch of parents, makes exactly two fetches, however many parents there
\* are.
C12_ThroughTwoFetches ==
    \A h \in 1..Len(history) :
        (history[h].op = "all" /\ ScopeCallOf(history[h].recv) # 0) =>
            history[h].err = "" /\ history[h].fetched = 2

\* a batch of two parents was read through, with two fetches, and records
\* came back
C12_Witness ==
    \E h \in 1..Len(history) :
        /\ history[h].op = "all" /\ ScopeCallOf(history[h].recv) # 0
        /\ history[ScopeCallOf(history[h].recv)].obj.k = "list"
        /\ Len(history[ScopeCallOf(history[h].recv)].obj.kids) = 2
        /\ history[h].fetched = 2
        /\ history[h].rows # <<>>

\* the source association the claim names, its related type, and the proxy
\* records of obj as the store holds them
ClaimedSource(a) == defined_associations(ProxyKlass(a), EffectiveSource(a))
ClaimedProxy(a) == defined_associations(a.target_klass, Get(a.options, "through").s)
\* (the proxy records of a polymorphic proxy are those of the parents' type)
RelatedType(a) ==
    IF ClaimedSource(a).kind = "belongs_to" /\ Option(ClaimedSource(a), "polymorphic") = True
    THEN Get(a.options, "source_type").s
    ELSE Get(ClaimedSource(a).options, "class_name").s
ParentKeys(obj) == {insts[Objects(obj)[i].n].attrs["id"] : i \in 1..Len(Objects(obj))}
ProxyRecords(a, obj) ==
    SelectSeq(Store(ProxyKlass(a)),
              LAMBDA rec :
                  /\ rec[foreign_key(ClaimedProxy(a))] \in ParentKeys(obj)
                  /\ "as_" \in Keys(ClaimedProxy(a).options) =>
                         rec[polymorphic_type(ClaimedProxy(a))] = Str(a.target_klass))
ClaimedWhere(a, obj) ==
    LET source == ClaimedSource(a)
        recs == ProxyRecords(a, obj)
    IN IF source.kind = "belongs_to"
       THEN Dict(<< <<"id", List([i \in 1..Len(recs) |-> recs[i][foreign_key(source)]])>> >>)
       ELSE Dict(<< <<foreign_key(source), List([i \in 1..Len(recs) |-> recs[i]["id"]])>> >>)

SetCache(w, a, instance, val) ==
    [Association__set__(w, a, instance, val) EXCEPT !.val = val]
\* the value worked out from the scope, and cached
ReadAfresh(w, a, instance) ==
    With(Scope(w, a, Inst(instance)), LAMBDA w1 :
        IF w1.err # "" THEN w1
        ELSE IF w1.ret = 0 THEN SetCache(w1, a, instance, None)
        ELSE IF collection(a) THEN SetCache(w1, a, instance, Rel(w1.ret))
        ELSE With(first(w1, w1.ret, NoOptions, NoKw, 0), LAMBDA w2 :
                IF w2.err # "" THEN w2
                ELSE SetCache(w2, a, instance,
                              IF Len(w2.rows) > 0 THEN Inst(w2.rows[1]) ELSE None)))
Association__get__(w, a, instance) ==
    IF a.id \in DOMAIN w.insts[instance].cache
    THEN [w EXCEPT !.val = w.insts[instance].cache[a.id]]
    ELSE ReadAfresh(w, a, instance)

\* instance.<id>: the caller reads the association; a Relation read is
\* held by the caller from then on
ReadAssociation(i, a) ==
    With(Association__get__(World, a, i), LAMBDA w :
        Commit([w EXCEPT !.ret = IF w.err = "" /\ w.val.k = "rel" THEN w.val.n ELSE 0],
               [NoCall EXCEPT !.op = "get", !.obj = Inst(i), !.assoc = a,
                              !.val = IF w.err = "" THEN w.val ELSE None],
               w.err = "" /\ w.val.k = "rel"))

(***************************************************************************)
(* SpecPreload: a caller that holds Site.where({'id': ids}) reads it with  *)
(* all(), with and without includes, as the first read there is, then      *)
(* reads the associations of the Sites it got and iterates the Relations   *)
(* they return.                                                            *)
(***************************************************************************)
\* the ids asked for: of no Site, of one, of two, of the Site that has no
\* maintainer, no article and no comment, of that Site with another, and of
\* the Site whose maintainer_id is the id of no Person
Batches == {<<PyInt(9)>>, <<PyInt(1)>>, <<PyInt(1), PyInt(2)>>, <<PyInt(3)>>,
            <<PyInt(1), PyInt(3)>>, <<PyInt(4)>>}
Names(names) == List([i \in 1..Len(names) |-> Str(names[i])])
PreloadInputs ==
    {Names(<<"articles">>), Names(<<"maintainer">>), Names(<<"comments">>),
     Names(<<"headline", "master_comment">>),
     Names(<<"articles", "comments", "maintainer">>),
     Names(<<"article_comments">>),
     Names(<<"nothing">>), Names(<<"articles", "zilch">>),
     Names(<<"maintainer", "zilch">>),
     Dict(<< <<"articles", Str("comments")>> >>)}
PreloadOptions ==
    {NoOptions} \cup {Dict(<< <<"includes", inc>> >>) : inc \in PreloadInputs}
ReadNames == {"articles", "maintainer", "headline", "article_comments"}

InitPreload ==
    \E ids \in Batches :
        LET w == Where(InitModels, KlassRelation("Site"),
                       Dict(<< <<"id", List(ids)>> >>))
        IN /\ rels = w.rels
           /\ lists = w.lists
           /\ calls = <<>>
           /\ live = {w.ret}
           /\ history = <<>>
           /\ insts = <<>>
           /\ memo = w.memo
           /\ local_cache = NoLocalCache
           /\ defined_models = FixtureModels
NextPreload ==
    \/ \E r \in live : \E options \in PreloadOptions :
          calls = <<>> /\ All(r, options, NoKw, 0)
    \/ \E i \in 1..Len(insts) : \E a \in Declared :
          /\ insts[i].klass = "Site" /\ a.target_klass = "Site" /\ a.id \in ReadNames
          /\ ReadAssociation(i, a)
    \/ \E r \in live : FetchRecords(r, 0)
SpecPreload == InitPreload /\ [][NextPreload]_vars

\* the includes tree of a call's options, the associations it names at the
\* top, and the records of the store the Relation read selects
IncludeTree(call) ==
    IF "includes" \in Keys(call.options)
    THEN includes_value(<<Get(call.options, "includes")>>)
    ELSE EmptyTree
Flat(tree) == \A x \in DOMAIN tree : tree[x] = EmptyTree
Preloadable(klass, x) ==
    /\ defined_associations(klass, x) # NoAssoc
    /\ eager_loadable(defined_associations(klass, x))
ParentBatch(r) ==
    SelectSeq(Store(rels[r].klass),
              LAMBDA rec : Matches(rec, List(ListOf(World, r, "where"))))
OverParents(r) == \A i \in 1..Len(ListOf(World, r, "where")) :
                      ~IsClosure(ListOf(World, r, "where")[i])

\* C16: a read with an includes tree that names k preloadable associations
\* of the class at one depth makes the fetch of the parents and exactly k
\* more, one for each name whatever its kind and however many parents there
\* are, and only the fetch of the parents when there is no parent.
C16_PreloadBatchingBound ==
    \A h \in 1..Len(history) :
        LET call == history[h]
            tree == IncludeTree(call)
        IN (/\ call.op = "all" /\ DOMAIN tree # {} /\ Flat(tree)
            /\ OverParents(call.recv)
            /\ \A x \in DOMAIN tree : Preloadable(rels[call.recv].klass, x)) =>
              call.fetched = IF ParentBatch(call.recv) = <<>> THEN 1
                             ELSE 1 + Cardinality(DOMAIN tree)

\* an association whose records are matched to the instance by one key: a
\* has-one, a has-many or a belongs-to that can be preloaded
Direct(a) == a.kind \in {"belongs_to", "has_one", "has_many"} /\ eager_loadable(a)
\* the records of the store that are instance i's by the direct association
\* a: the key matches and, for a polymorphic has, the type attribute is the
\* name of the class of i
OwnRecords(i, a) ==
    SelectSeq(Store(Option(a, "class_name").s), LAMBDA rec :
        IF type(a) = "belongs_to"
        THEN rec[primary_key_of(Option(a, "class_name").s)]
                 = insts[i].attrs[foreign_key(a)]
        ELSE /\ rec[foreign_key(a)] = insts[i].attrs[primary_key_of(insts[i].klass)]
             /\ polymorphic(a) => rec[polymorphic_type(a)] = Str(insts[i].klass))
\* the instances `rows` are the records `records` of klass, one for one
AreRecords(rows, klass, records) ==
    /\ Len(rows) = Len(records)
    /\ \A j \in 1..Len(rows) :
          /\ insts[rows[j]].klass = klass
          /\ \A x \in DOMAIN insts[rows[j]].attrs :
                (x \in DOMAIN records[j]) => insts[rows[j]].attrs[x] = records[j][x]

Preloads(h) ==
    /\ history[h].op = "all"
    /\ DOMAIN IncludeTree(history[h]) # {}
    /\ OverParents(history[h].recv)
    /\ ParentBatch(history[h].recv) # <<>>
    /\ \A x \in DOMAIN IncludeTree(history[h]) :
          Preloadable(rels[history[h].recv].klass, x)
\* instance i holds association a as the preload leaves it: a collection is
\* a Relation with its records in place whose params are those of the scope
\* of a for i alone, any other association is an instance or None
Attached(i, a) ==
    /\ a.id \in DOMAIN insts[i].cache
    /\ LET v == insts[i].cache[a.id]
       IN IF collection(a)
          THEN /\ v.k = "rel"
               /\ ~rels[v.n].records.none
               /\ With(Scope(World, a, Inst(i)), LAMBDA w :
                      w.err = "" /\ w.ret # 0
                          /\ WParams(World, v.n) = WParams(w, w.ret))
          ELSE v.k \in {"inst", "none"}

\* C18: a read that preloads returns its instances with every included
\* association attached (a Relation with its records and the query of the
\* instance's own scope for a has-many or has-many-through, the one record
\* or None for a has-one or belongs-to), and reading an included association
\* of such an instance, or iterating the Relation read, fetches nothing
C18_PreloadAttachment ==
    \A h \in 1..Len(history) :
        Preloads(h) =>
            /\ history[h].err = ""
            /\ \A j \in 1..Len(history[h].rows) : \A x \in DOMAIN IncludeTree(history[h]) :
                  Attached(history[h].rows[j],
                           defined_associations(rels[history[h].recv].klass, x))
            /\ \A g \in (h + 1)..Len(history) :
                  /\ (/\ history[g].op = "get"
                      /\ \E j \in 1..Len(history[h].rows) :
                            history[g].obj = Inst(history[h].rows[j])
                      /\ history[g].assoc.id \in DOMAIN IncludeTree(history[h]))
                        => history[g].fetched = 0 /\ history[g].err = ""
                  /\ (/\ history[g].op = "fetch_records"
                      /\ \E j \in 1..Len(history[h].rows) :
                            \E x \in DOMAIN IncludeTree(history[h]) :
                                /\ x \in DOMAIN insts[history[h].rows[j]].cache
                                /\ insts[history[h].rows[j]].cache[x]
                                       = Rel(history[g].recv))
                        => history[g].fetched = 0 /\ history[g].err = ""

\* C19: a read whose includes tree names, at the top, something that is no
\* association of the class raises AssociationNotFound and hands no list to
\* the caller; and a list that is handed to the caller has every named
\* association attached to every instance in it
C19_AtomicPreloadFailure ==
    \A h \in 1..Len(history) :
        (history[h].op = "all" /\ OverParents(history[h].recv)) =>
            /\ (\E x \in DOMAIN IncludeTree(history[h]) :
                    defined_associations(rels[history[h].recv].klass, x) = NoAssoc)
                  => history[h].err = "AssociationNotFound" /\ history[h].rows = <<>>
            /\ history[h].err = "" =>
                  \A j \in 1..Len(history[h].rows) :
                      \A x \in DOMAIN IncludeTree(history[h]) :
                          x \in DOMAIN insts[history[h].rows[j]].cache

(***************************************************************************)
(* The fresh query method of local_cache.py, and SpecCache: the model      *)
(* classes have LocalCache as a middleware of their read stack; a caller   *)
(* that holds Sites 1 and 3, and the articles of Site 1 which it has read  *)
(* with all() so that the cache holds them, reads associations of the      *)
(* Sites and reads the Relations it got with all() and with fresh().all(), *)
(* while entries of the cache expire.                                      *)
(***************************************************************************)
\* the clone without the param
FreshUnmarked(w, r, value) == clone(w, r)
\* Relation.fresh(value=True): a clone with params['fresh'] = value and
\* _query and _records None
fresh(w, r, value) ==
    With(clone(w, r), LAMBDA c :
        [c EXCEPT !.rels[c.ret].sing = [m \in (DOMAIN @) \cup {"fresh"} |->
                                           IF m = "fresh" THEN value ELSE @[m]],
                  !.rels[c.ret].query = NoQuery,
                  !.rels[c.ret].records = NoRecords])

\* r.fresh().all()
FreshAll(r) ==
    With(fresh(World, r, True), LAMBDA w :
        Commit(all(w, w.ret, NoOptions, NoKw, 0),
               [NoCall EXCEPT !.op = "fresh_all", !.recv = r], FALSE))

\* time passes until the oldest entry of the cache has expired:
\* CacheStore.read and CacheStore.clear take it out (while calls are to come)
Elapse ==
    /\ Len(history) < MaxOps
    /\ local_cache.store # <<>>
    /\ local_cache' = [local_cache EXCEPT !.store = Tail(@)]
    /\ UNCHANGED <<rels, lists, calls, live, history, insts, memo, defined_models>>

CacheNames == {"articles", "maintainer", "headline", "article_comments"}
\* Site 1 and Site 3 as instances and articles = site1.articles, which is
\* the scope of the association cached on the instance; w.ret is articles
CacheStart ==
    With(handle_read([InitModels EXCEPT !.local_cache.middleware = TRUE], "Site",
                     <<Store("Site")[1], Store("Site")[3]>>, 1), LAMBDA w0 :
    With(Scope(w0, defined_associations("Site", "articles"), Inst(1)), LAMBDA w1 :
        [SetCache(w1, defined_associations("Site", "articles"), 1, Rel(w1.ret))
            EXCEPT !.ret = w1.ret]))
\* what the cache holds once articles.all() was read: the records of its
\* query, under the key of its class and query
Primed(w) ==
    CacheStore_write(<<>>, [klass |-> w.rels[w.ret].klass, query |-> BuildQuery(w, w.ret)],
                     [result |-> SelectSeq(Store(w.rels[w.ret].klass),
                                     LAMBDA rec : Matches(rec, BuildQuery(w, w.ret).q["where"])),
                      read |-> 0])
InitCache ==
    /\ rels = CacheStart.rels
    /\ lists = CacheStart.lists
    /\ calls = <<>>
    /\ live = {CacheStart.ret}
    /\ history = <<>>
    /\ insts = CacheStart.insts
    /\ memo = CacheStart.memo
    /\ local_cache = [CacheStart.local_cache EXCEPT !.store = Primed(CacheStart)]
    /\ defined_models = FixtureModels
NextCache ==
    \/ \E i \in 1..Len(insts) : \E a \in Declared :
          /\ insts[i].klass = "Site" /\ a.target_klass = "Site" /\ a.id \in CacheNames
          /\ ReadAssociation(i, a)
    \/ \E r \in live : All(r, NoOptions, NoKw, 0)
    \/ \E r \in live : FreshAll(r)
    \/ Elapse
SpecCache == InitCache /\ [][NextCache]_vars

\* C20: a second read of an association of an instance gives what the first
\* read cached on the instance, None included, and fetches nothing; and
\* fresh().all() of the Relation of a has-many association fetches exactly
\* once, whatever is cached
C20_AssociationCaching ==
    \A h \in 1..Len(history) :
        /\ history[h].op = "get" =>
              \A g \in 1..(h - 1) :
                  (/\ history[g].op = "get" /\ history[g].err = ""
                   /\ history[g].obj = history[h].obj
                   /\ history[g].assoc = history[h].assoc)
                    => /\ history[h].err = ""
                       /\ history[h].fetched = 0
                       /\ history[h].val = history[g].val
        /\ (history[h].op = "fresh_all" /\ OverParents(history[h].recv))
              => history[h].err = "" /\ history[h].fetched = 1
\* the headline of Site 3, of which there is none, was read twice after its
\* first read fetched, and the articles of Site 1, whose records the cache
\* holds, were read with fresh().all()
C20_Witness ==
    /\ \E g, h \in 1..Len(history) :
          /\ g < h
          /\ history[g].op = "get" /\ history[h].op = "get"
          /\ history[g].obj = history[h].obj
          /\ history[g].assoc = history[h].assoc
          /\ history[g].assoc.id = "headline"
          /\ history[g].fetched = 1
          /\ history[g].val = None
    /\ \E k \in 1..Len(history) :
          /\ history[k].op = "fresh_all"
          /\ history[k].recv = CacheStart.ret
          /\ history[k].rows # <<>>
          /\ \E e \in 1..Len(local_cache.store) :
                local_cache.store[e].key.query = QueryOf(CacheStart.ret)

(***************************************************************************)
(* Model classes by name.  A string is the sequence of its pieces; the     *)
(* pieces of the module paths and names below are single characters.       *)
(***************************************************************************)
\* name.rsplit('.', 1): what is before the last '.' and what is after it, or
\* the name alone when it has no '.'
LastDot(name) ==
    IF \E i \in 1..Len(name) : name[i] = "."
    THEN CHOOSE i \in 1..Len(name) :
             name[i] = "." /\ \A j \in (i + 1)..Len(name) : name[j] # "."
    ELSE 0
rsplit(name) ==
    IF LastDot(name) = 0 THEN <<name>>
    ELSE <<SubSeq(name, 1, LastDot(name) - 1), SubSeq(name, LastDot(name) + 1, Len(name))>>
\* string.endswith(suffix)
endswith(string, suffix) ==
    /\ Len(suffix) <= Len(string)
    /\ SubSeq(string, Len(string) - Len(suffix) + 1, Len(string)) = suffix

\* BaseMeta.resolve_name(name): the classes defined under the last part of
\* the name, in the order they were defined; if the name has a '.', those
\* among them whose __module__ ends with what is before the last '.'
BaseMeta_resolve_name(models, name) ==
    LET parts == rsplit(name)
        class_name == parts[Len(parts)]
        classes == SelectSeq(models, LAMBDA kls : kls.name = class_name)
    IN IF Len(parts) = 2
       THEN SelectSeq(classes, LAMBDA kls : endswith(kls.module, parts[1]))
       ELSE classes

\* '.'.join([arg for arg in [namespace, class_name] if arg])
TypeString(namespace, class_name) ==
    IF namespace = <<>> THEN class_name
    ELSE IF class_name = <<>> THEN namespace
    ELSE namespace \o <<".">> \o class_name

\* Association._get_resolved_class(string) over the classes defined
ResolvedClass(models, string) ==
    LET class_name == BaseMeta_resolve_name(models, string)
    IN IF class_name = <<>> THEN [err |-> "ModelNotDefined", classes |-> <<>>]
       ELSE IF Len(class_name) > 1 THEN [err |-> "AmbiguousClassName", classes |-> <<>>]
       ELSE [err |-> "", classes |-> <<class_name[1]>>]

(***************************************************************************)
(* SpecNames: model classes are defined in modules a, ba and b.a under the *)
(* names X and Y, and associations with a class_name and with or without a *)
(* namespace option have their class resolved.                             *)
(***************************************************************************)
NameModules == {<<"a">>, <<"b", "a">>, <<"b", ".", "a">>}
NameSpaces == NameModules \cup {<<>>, <<"b">>}
ClassNames == {<<"X">>, <<"Y">>}

\* class <name>(pyperry.Base) in module: BaseMeta.__new__ appends the class
\* to defined_models[name]
DefineModel(name, module) ==
    /\ Len(history) < MaxOps
    /\ defined_models' = Append(defined_models, [name |-> name, module |-> module])
    /\ history' = Append(history, [NoCall EXCEPT !.op = "define", !.name = name,
                                                 !.args = module])
    /\ UNCHANGED <<rels, lists, calls, live, insts, memo, local_cache>>

\* source_klass() of an association with the options namespace and
\* class_name: _get_resolved_class of the two joined; rows are the classes
\* returned
ResolveClass(namespace, class_name) ==
    /\ Len(history) < MaxOps
    /\ history' = Append(history,
           [NoCall EXCEPT !.op = "resolve", !.name = class_name, !.args = namespace,
                          !.err = ResolvedClass(defined_models,
                                                TypeString(namespace, class_name)).err,
                          !.rows = ResolvedClass(defined_models,
                                                 TypeString(namespace, class_name)).classes])
    /\ UNCHANGED <<rels, lists, calls, live, insts, memo, local_cache, defined_models>>

InitNames ==
    /\ rels = InitWorld.rels
    /\ lists = InitWorld.lists
    /\ calls = <<>>
    /\ live = {}
    /\ history = <<>>
    /\ insts = InitWorld.insts
    /\ memo = InitWorld.memo
    /\ local_cache = NoLocalCache
    /\ defined_models = <<>>
NextNames ==
    \/ \E name \in ClassNames : \E module \in NameModules : DefineModel(name, module)
    \/ \E namespace \in NameSpaces : \E name \in ClassNames : ResolveClass(namespace, name)
SpecNames == InitNames /\ [][NextNames]_vars

\* the classes defined before call h
DefinedAt(h) ==
    LET defs == SelectSeq(SubSeq(history, 1, h - 1), LAMBDA c : c.op = "define")
    IN [i \in 1..Len(defs) |-> [name |-> defs[i].name, module |-> defs[i].args]]

\* C21: resolving a class by name raises ModelNotDefined when no class of
\* the name is defined, raises AmbiguousClassName when several are and no
\* namespace is given, and gives exactly the one class of the namespace when
\* two or more classes defined have the name and the namespace given is the
\* full module path of one of them
C21_StringTypeResolution ==
    \A h \in 1..Len(history) :
        history[h].op = "resolve" =>
            LET models == DefinedAt(h)
                namespace == history[h].args
                named == {i \in 1..Len(models) : models[i].name = history[h].name}
                there == {i \in named : models[i].module = namespace}
            IN /\ named = {} => history[h].err = "ModelNotDefined"
               /\ (Cardinality(named) > 1 /\ namespace = <<>>)
                     => history[h].err = "AmbiguousClassName"
               /\ (Cardinality(named) >= 2 /\ Cardinality(there) = 1)
                     => /\ history[h].err = ""
                        /\ history[h].rows = <<models[CHOOSE i \in there : TRUE]>>

(***************************************************************************)
(* SpecDeferred: a caller that holds Test's Relation passes callables as   *)
(* clause values, clones and merges the Relations it gets, and reads       *)
(* query() and fetches on them.                                            *)
(***************************************************************************)
LimitLambda == Fn(PyInt(1))
DeferredInputs ==
    {<<"where", Fn(X)>>, <<"includes", Fn(Str("foo"))>>, <<"includes", Fn(Dict(<<>>))>>}

NextDeferred ==
    \/ \E r \in live : Singular(r, "limit", LimitLambda)
    \/ \E r \in live, a \in DeferredInputs : Plural(r, a[1], <<a[2]>>, NoKw)
    \/ \E r \in live : Clone(r)
    \/ \E a \in live, b \in live : Merge(a, b)
    \/ \E r \in live : Query(r)
    \/ \E r \in live, n \in Adapted : FetchRecords(r, n)

SpecDeferred == Init /\ [][NextDeferred]_vars

\* the callables among the param values of Relation r
HeldLambdas(r) ==
    CalledIn(World, r, PluralMethods \o SingularMethods, 1)
\* the calls of callables made by the calls from h on that read query() or
\* fetched on Relation r
RECURSIVE EvalsOn(_, _)
EvalsOn(r, h) ==
    IF h > Len(history) THEN 0
    ELSE (IF history[h].op \in {"query", "fetch_records"} /\ history[h].recv = r
          THEN history[h].evals ELSE 0) + EvalsOn(r, h + 1)
ReadOn(r) ==
    \E h \in 1..Len(history) :
        history[h].op \in {"query", "fetch_records"} /\ history[h].recv = r

\* C22: no call that builds, clones or merges a Relation calls a callable
\* clause value, and however many times query() was read and records were
\* fetched on a Relation, each callable among its clause values was called
\* exactly once if either was done at all.
C22_DeferredValues ==
    /\ \A h \in 1..Len(history) :
          history[h].op \in {"singular", "plural", "clone", "merge"}
              => history[h].evals = 0
    /\ \A r \in 1..Len(rels) : ReadOn(r) => EvalsOn(r, 1) = HeldLambdas(r)

(***************************************************************************)
(* SpecFinder: a caller that holds Test's Relation and Relations with a    *)
(* limit and a where-value fetches with all(options).                      *)
(***************************************************************************)
FinderInputs ==
    {Dict(<< <<"order", X>>, <<"limit", PyInt(10)>> >>),
     Dict(<< <<"conditions", KwA>>, <<"from_", Str("foo")>> >>),
     Dict(<< <<"bogus", X>>, <<"limit", PyInt(3)>> >>),
     Dict(<< <<"limit", PyInt(0)>> >>),
     Dict(<< <<"where", List(<<>>)>> >>),
     Dict(<< <<"from", Str("")>> >>)}

NextFinder ==
    \/ \E r \in live : Singular(r, "limit", PyInt(5))
    \/ \E r \in live : Plural(r, "where", <<X>>, NoKw)
    \/ \E r \in live, options \in FinderInputs, n \in Adapted : All(r, options, NoKw, n)

SpecFinder == Init /\ [][NextFinder]_vars

\* the clause calls a map of options stands for, made one after another from
\* Relation w.ret on: for each entry from the i-th on whose key is a query
\* method or an alias of one, the method called with the value
RECURSIVE Chained(_, _, _)
Chained(w, options, i) ==
    IF i > Len(options.kids) THEN w
    ELSE IF options.kids[i][1] \in Range(ValidMethods)
    THEN Chained(CallMethod(w, w.ret, Alias(options.kids[i][1]), <<options.kids[i][2]>>),
                 options, i + 1)
    ELSE Chained(w, options, i + 1)
\* query() of the Relation those calls give when made on Relation r
ChainedQuery(r, options) ==
    With(Chained([World EXCEPT !.ret = r], options, 1), LAMBDA w : QueryValue(w, w.ret))

\* C23: r.all(options) fetches with the query dict of the Relation the
\* clause calls named by the options give when chained on r, whatever the
\* values, 0 and empty ones too; entries whose key is no query method count
\* for nothing.
C23_FinderOptionsAreChainedCalls ==
    \A h \in 1..Len(history) :
        (history[h].op = "all" /\ history[h].err = "")
            => /\ history[h].fetched = 1
               /\ calls[history[h].ncalls + 1].query
                      = ChainedQuery(history[h].recv, history[h].options)


\* the Relation call h fetched, the first the call made (all() fetches the
\* clone apply_finder_options makes) or, after fresh(), the second; the reads
\* of the call that reached the item below LocalCache for it; and the entry
\* the cache held for its class and query when the call was made
FetchedBy(h) == history[h].nrels + (IF history[h].op = "fresh_all" THEN 2 ELSE 1)
ReachedNext(h) ==
    {c \in (history[h].ncalls + 1)..(history[h].ncalls + history[h].fetched) :
        calls[c].rel = FetchedBy(h)}
EntryAt(h) ==
    CacheStore_read(history[h].store,
                    [klass |-> rels[FetchedBy(h)].klass,
                     query |-> rels[FetchedBy(h)].query])
\* the rows a call returned are instances of the records `result`
InstancesOf(rows, result) ==
    /\ Len(rows) = Len(result)
    /\ \A i \in 1..Len(rows) :
          \A x \in (DOMAIN result[i]) \cap (DOMAIN insts[rows[i]].attrs) :
              insts[rows[i]].attrs[x] = result[i][x]

\* C24: all() on a Relation for whose class and query the cache holds an
\* entry that has not expired returns the stored result without a call of
\* the next item of the stack, an empty result too; with no entry under that
\* class and query the next item is called; fresh().all() calls it whatever
\* the cache holds.
C24_LocalCacheHit ==
    \A h \in 1..Len(history) :
        /\ (history[h].op = "all" /\ history[h].err = "")
              => IF EntryAt(h).found
                 THEN /\ ReachedNext(h) = {}
                      /\ InstancesOf(history[h].rows, EntryAt(h).result)
                 ELSE Cardinality(ReachedNext(h)) = 1
        /\ (history[h].op = "fresh_all" /\ history[h].err = "")
              => Cardinality(ReachedNext(h)) = 1

\* the adapter read whose records call h returned: the read the call made
\* for the Relation it fetched or, if it made none, the read that produced
\* the entry of the cache it was served from
ServedRead(h) ==
    IF ReachedNext(h) # {} THEN CHOOSE c \in ReachedNext(h) : TRUE
    ELSE EntryAt(h).read

\* C28: once r.fresh().all() has fetched, r.all() returns the records of
\* that read of the adapter (or of one made after it), never those of a read
\* made before it that the cache still holds.
C28_FreshRefreshesCache ==
    \A g \in 1..Len(history) : \A h \in (g + 1)..Len(history) :
        (/\ history[g].op = "fresh_all" /\ history[g].err = ""
         /\ history[h].op = "all" /\ history[h].err = ""
         /\ history[h].recv = history[g].recv)
            => ServedRead(h) >= ServedRead(g)

(***************************************************************************)
(* SpecModifiers: a caller that holds Test's Relation gives Relations      *)
(* modifiers and merges them.                                              *)
(***************************************************************************)
ModifierInputs ==
    {KwA, Dict(<< <<"a", Y>>, <<"b", X>> >>), Fn(Dict(<< <<"b", Y>> >>))}

NextModifiers ==
    \/ \E r \in live, value \in ModifierInputs : Modifiers(r, value)
    \/ \E a \in live, b \in live : Merge(a, b)

SpecModifiers == Init /\ [][NextModifiers]_vars

\* C25: a.merge(b) raises nothing, however many modifiers a and b hold, and
\* the modifiers_value() of what it returns is a's updated with each of b's
\* modifiers in order; a and b hold the params they held when they were
\* returned to the caller.
C25_MergeCarriesModifiers ==
    \A h \in 1..Len(history) :
        history[h].op = "merge"
            => /\ history[h].err = ""
               /\ modifiers_value(World, history[h].ret)
                      = ModifiersFold(PList(history[h].other, "modifiers"), 1,
                                      modifiers_value(World, history[h].recv))
               /\ \A g \in 1..Len(history) :
                      (history[g].ret # 0
                           /\ history[g].ret \in {history[h].recv, history[h].other})
                          => ParamsOf(history[g].ret) = history[g].params


\* C26: a call of apply_finder_options, all or first leaves the map of
\* options it was passed as it was.
C26_OptionsMapUntouched ==
    \A h \in 1..Len(history) :
        (history[h].op \in FinderOps /\ history[h].err = "")
            => history[h].options_after = history[h].options

\* the first read of the adapter call h made (that of the Relation it
\* fetched; those of a preload follow it), the records it selected, in the
\* order of the store, and the attributes Base.__init__ gives an instance
\* of klass made of rec
FirstRead(h) == calls[history[h].ncalls + 1]
SelectedBy(h) ==
    SelectSeq(Store(rels[FirstRead(h).rel].klass),
              LAMBDA rec : Matches(rec, FirstRead(h).query.q["where"]))
AsRead(klass, rec) ==
    [x \in defined_attributes(klass) |-> IF x \in DOMAIN rec THEN rec[x] ELSE None]

NullJoinKey(i, a) ==
    insts[i].attrs[IF type(a) = "belongs_to" THEN foreign_key(a)
                   ELSE primary_key_of(insts[i].klass)] = None

\* C29: a read of a batch with parents whose includes name has-many, has-one
\* and belongs-to associations raises nothing, also when the join key of a
\* parent is None; such a parent is returned with None or with a Relation
\* of no records under the association, every other parent with its own
\* records.
C29_PreloadNullJoinKeys ==
    \A h \in 1..Len(history) :
        (/\ Preloads(h)
         /\ \A x \in DOMAIN IncludeTree(history[h]) :
               Direct(defined_associations(rels[history[h].recv].klass, x)))
            => /\ history[h].err = ""
               /\ Len(history[h].rows) = Len(ParentBatch(history[h].recv))
               /\ \A j \in 1..Len(history[h].rows) : \A x \in DOMAIN IncludeTree(history[h]) :
                     LET i == history[h].rows[j]
                         a == defined_associations(insts[i].klass, x)
                         v == insts[i].cache[x]
                     IN /\ x \in DOMAIN insts[i].cache
                        /\ IF collection(a)
                           THEN /\ v.k = "rel" /\ ~rels[v.n].records.none
                                /\ NullJoinKey(i, a) => rels[v.n].records.rows = <<>>
                                /\ AreRecords(rels[v.n].records.rows,
                                              Option(a, "class_name").s, OwnRecords(i, a))
                           ELSE IF NullJoinKey(i, a) \/ OwnRecords(i, a) = <<>>
                           THEN v = None
                           ELSE /\ v.k = "inst"
                                /\ AreRecords(<<v.n>>, Option(a, "class_name").s,
                                              <<OwnRecords(i, a)[1]>>)


(***************************************************************************)
(* SpecAssign: a caller that holds Site 1, Person 1 and Comment 1 assigns  *)
(* to their belongs-to associations.                                       *)
(***************************************************************************)
AssignStart ==
    NewInstance(NewInstance(NewInstance(InitModels, "Site", Store("Site")[1]),
                            "Person", Store("Person")[1]),
                "Comment", Store("Comment")[1])
\* what is assigned: None, or an instance of the class of the association
\* (of either class for the polymorphic parent of a Comment)
Assignable(a) ==
    {None} \cup {Inst(i) : i \in {j \in 1..Len(insts) :
                                     \/ Option(a, "class_name") = Str(insts[j].klass)
                                     \/ polymorphic(a) /\ insts[j].klass # "Comment"}}

\* instance.<id of a> = value, the assignment BelongsTo.__set__ takes;
\* `before` are the instances as they were
Assign(i, a, value) ==
    Commit(BelongsTo__set__(World, a, i, value),
           [NoCall EXCEPT !.op = "set", !.obj = Inst(i), !.assoc = a, !.val = value,
                          !.before = insts], FALSE)

InitAssign ==
    /\ rels = AssignStart.rels
    /\ lists = AssignStart.lists
    /\ calls = <<>>
    /\ live = {}
    /\ history = <<>>
    /\ insts = AssignStart.insts
    /\ memo = AssignStart.memo
    /\ local_cache = NoLocalCache
    /\ defined_models = FixtureModels
NextAssign ==
    \E i \in 1..Len(insts) : \E a \in Declared :
        /\ a.kind = "belongs_to" /\ a.target_klass = insts[i].klass
        /\ \E value \in Assignable(a) : Assign(i, a, value)
SpecAssign == InitAssign /\ [][NextAssign]_vars

\* the instances after value was assigned to the belongs-to a of instance
\* i, as the claim has it: the value is cached, the foreign key is the
\* value's primary key, and the type attribute is the name of the value's
\* class if a is polymorphic (None for both if the value is None)
Assigned(before, i, a, value) ==
    LET cached == [before EXCEPT ![i].cache =
                      [x \in (DOMAIN @) \cup {a.id} |-> IF x = a.id THEN value ELSE @[x]]]
        keyed == [cached EXCEPT ![i].attrs[foreign_key(a)] =
                      IF value = None THEN None
                      ELSE before[value.n].attrs[primary_key_of(before[value.n].klass)]]
    IN IF polymorphic(a)
       THEN [keyed EXCEPT ![i].attrs[polymorphic_type(a)] =
                IF value = None THEN None ELSE Str(before[value.n].klass)]
       ELSE keyed

\* C30: an assignment to a belongs-to association of an instance caches the
\* value on the instance and sets the instance's foreign key to the value's
\* primary key, None for None; the type attribute is set if the association
\* is polymorphic and only then; no other attribute of the instance and no
\* other instance changes.
C30_BelongsToAssignment ==
    (Last.op = "set" /\ Last.err = "")
        => insts = Assigned(Last.before, Last.obj.n, Last.assoc, Last.val)
====
